---- MODULE Spec2Model ----
(***************************************************************************)
(* A model of lib/compose.ts of balena-compose-parser: parse(), normalize() *)
(* and the entity normalizers it calls, the long-to-short syntax           *)
(* downgrades, the label rule table, and toImageDescriptors().             *)
(*                                                                         *)
(* Encoding of JavaScript values                                           *)
(*   object with fixed schema      record; `f in o` is f \in DOMAIN o      *)
(*   object iterated by            sequence of [key, value] records, in    *)
(*     Object.entries                insertion order                       *)
(*   array                         sequence                                *)
(*   string                        string; in a position that holds a      *)
(*                                   string OR an object (ports, devices,  *)
(*                                   volumes, depends_on entries) it is    *)
(*                                   the record [jsstring |-> s]           *)
(*   null / false / {}             JSNull / JSFalse / JSEmptyObject        *)
(*   stderr of the binary          the sequence of its lines, what         *)
(*                                   split('\n') yields; lines and stdout  *)
(*                                   are strings that JSONParse reads      *)
(***************************************************************************)
EXTENDS Integers, Sequences, FiniteSets, TLC

VARIABLES
    pc,              \* position of the caller: see Next
    rawComposition,  \* the document handed to normalize (mutated in place)
    original,        \* the document as it was when normalize was called
    composeFilePath, \* the primary compose file path handed to normalize
    cwd,             \* process.cwd(), which path.relative resolves against
    composition,     \* the composition under construction / returned
    thrown,          \* the error normalize or toImageDescriptors raised
    calls,           \* entity normalizers invoked so far, in call order
    pass,            \* 1: first normalize; 2: the result fed through again
    previous,        \* the composition the first pass returned
    descriptors,     \* what toImageDescriptors returned
    filePaths,       \* the compose file paths parse was called with
    result,          \* what exec of the binary resolved or rejected with
    warnings         \* number of console.warn calls of toComposeError

vars == <<pc, rawComposition, original, composeFilePath, cwd, composition,
          thrown, calls, pass, previous, descriptors, filePaths, result,
          warnings>>

----------------------------------------------------------------------------
(* JavaScript helpers *)

JSNull == [jstype |-> "null"]
JSFalse == [jstype |-> "boolean", value |-> FALSE]
JSEmptyObject == [jstype |-> "object"]

JSString(s) == [jsstring |-> s]
IsJSString(v) == "jsstring" \in DOMAIN v

Has(o, f) == f \in DOMAIN o
Delete(o, fs) == [k \in DOMAIN o \ fs |-> o[k]]
Assign(o, f, v) == [k \in DOMAIN o \cup {f} |-> IF k = f THEN v ELSE o[k]]

\* a string property read for its truthiness: undefined and "" are both falsy
StringOf(o, f) == IF Has(o, f) THEN o[f] ELSE ""
\* a string property interpolated into a template or coerced by RegExp.test
TemplateOf(o, f) == IF Has(o, f) THEN o[f] ELSE "undefined"

Entry(k, v) == [key |-> k, value |-> v]
IsDict(x) == \A i \in 1..Len(x) : Has(x[i], "key")
\* Object.entries: of an array it yields the indices as keys
ObjectEntries(x) ==
    IF IsDict(x) THEN x
    ELSE [i \in 1..Len(x) |-> Entry(ToString(i - 1), x[i])]
Keys(d) == {d[i].key : i \in 1..Len(d)}
Lookup(d, k) == d[CHOOSE i \in 1..Len(d) : d[i].key = k].value

Min(S) == CHOOSE n \in S : \A m \in S : n <= m

StartsWith(s, prefix) ==
    Len(s) >= Len(prefix) /\ SubSeq(s, 1, Len(prefix)) = prefix
EndsWith(s, suffix) ==
    Len(s) >= Len(suffix) /\ SubSeq(s, Len(s) - Len(suffix) + 1, Len(s)) = suffix
Includes(s, part) ==
    \E i \in 1..(Len(s) - Len(part) + 1) : SubSeq(s, i, i + Len(part) - 1) = part
\* String.prototype.replace(prefix, '') on a string that starts with prefix
RemovePrefix(s, prefix) == SubSeq(s, Len(prefix) + 1, Len(s))

Ok(v) == [ok |-> TRUE, value |-> v]
Throw(e) == [ok |-> FALSE, error |-> e]

\* a loop that throws at its first failing iteration: the first failure of
\* results, or Ok of all the values
Collect(results) ==
    IF \E i \in 1..Len(results) : ~results[i].ok
    THEN results[Min({i \in 1..Len(results) : ~results[i].ok})]
    ELSE Ok([i \in 1..Len(results) |-> results[i].value])
\* Ok(f := r.value in o), or r's failure
AssignResult(o, f, r) == IF r.ok THEN Ok(Assign(o, f, r.value)) ELSE r

----------------------------------------------------------------------------
(* errors.ts *)

ComposeError(message, level, name) ==
    [name |-> name, level |-> level, message |-> message]
ValidationError(message) ==
    [name |-> "ValidationError", level |-> "error", message |-> message]
ArgumentError(message) ==
    [name |-> "ArgumentError", level |-> "error", message |-> message]
ServiceError(message, serviceName) ==
    [name |-> "ServiceError", level |-> "error", message |-> message,
     serviceName |-> serviceName]
\* what the runtime raises when a non-function is called
TypeError(message) == [name |-> "TypeError", message |-> message]
NoError == [name |-> "none"]

----------------------------------------------------------------------------
(* path (posix): dirname, resolve, relative *)

SplitPath(s) ==
    LET cuts == {0} \cup {i \in 1..Len(s) : SubSeq(s, i, i) = "/"} \cup {Len(s) + 1}
        \* the k-th smallest of the cuts
        cut(k) == CHOOSE x \in cuts : Cardinality({y \in cuts : y < x}) = k - 1
    IN  [k \in 1..(Cardinality(cuts) - 1) |-> SubSeq(s, cut(k) + 1, cut(k + 1) - 1)]

RECURSIVE NormalizeSegments(_, _)
NormalizeSegments(segs, acc) ==
    IF segs = << >> THEN acc
    ELSE LET h == Head(segs)
         IN  IF h = "" \/ h = "." THEN NormalizeSegments(Tail(segs), acc)
             ELSE IF h = ".."
                  THEN NormalizeSegments(Tail(segs),
                         IF acc = << >> THEN acc ELSE SubSeq(acc, 1, Len(acc) - 1))
                  ELSE NormalizeSegments(Tail(segs), Append(acc, h))

RECURSIVE JoinPath(_)
JoinPath(segs) ==
    IF segs = << >> THEN ""
    ELSE IF Len(segs) = 1 THEN segs[1]
    ELSE segs[1] \o "/" \o JoinPath(Tail(segs))

\* path.resolve(p): the segments of the absolute path
PathResolve(p, dir) ==
    IF StartsWith(p, "/") THEN NormalizeSegments(SplitPath(p), << >>)
    ELSE NormalizeSegments(SplitPath(dir) \o SplitPath(p), << >>)

PathDirname(p) ==
    LET segs == SplitPath(p)
        n == Len(segs)
    IN  IF n = 1 THEN "."
        ELSE IF n = 2 /\ segs[1] = "" THEN "/"
        ELSE JoinPath(SubSeq(segs, 1, n - 1))

RECURSIVE CommonPrefixLen(_, _)
CommonPrefixLen(a, b) ==
    IF a = << >> \/ b = << >> THEN 0
    ELSE IF Head(a) # Head(b) THEN 0
    ELSE 1 + CommonPrefixLen(Tail(a), Tail(b))

\* from f up to the common ancestor (its depth is c), then down to t
RelativeSegments(f, t, c) ==
    [i \in 1..(Len(f) - c) |-> ".."] \o SubSeq(t, c + 1, Len(t))

ResolvedRelative(f, t) == JoinPath(RelativeSegments(f, t, CommonPrefixLen(f, t)))

PathRelative(from, to, dir) ==
    ResolvedRelative(PathResolve(from, dir), PathResolve(to, dir))

----------------------------------------------------------------------------
(* The label rule table *)

contractRequirementLabelPrefix == "io.balena.features.requires."

\* the own keys of the supportedContractRequirementLabels object literal
SupportedContractTypes == {"sw.supervisor", "sw.l4t", "hw.device-type", "arch.sw"}

\* keys every object literal inherits from Object.prototype; the `in`
\* operator finds them, and none of them has validate or transform
ObjectPrototypeKeys ==
    {"constructor", "toString", "toLocaleString", "valueOf", "hasOwnProperty",
     "isPrototypeOf", "propertyIsEnumerable", "__proto__"}

\* `key in supportedContractRequirementLabels`
InSupportedContractRequirementLabels(key) ==
    key \in SupportedContractTypes \cup ObjectPrototypeKeys

SupportedArchitectures == {"aarch64", "rpi", "amd64", "armv7hf", "i386"}

\* semver's validRange(value) != null, over the values the model draws
SemverRanges == {">=16.0.0", ">=2.5.0", "32.4.4", "*", ""}
validRange(value) == value \in SemverRanges

validateVersionRange(value, label) ==
    IF ~validRange(value)
    THEN Throw(ValidationError("Invalid value for label '" \o label \o "'. "
               \o "Expected a valid semver range; " \o "got '" \o value \o "'"))
    ELSE Ok(TRUE)

\* supportedContractRequirementLabels[ctype].validate(value, label)
ContractValidate(ctype, value, label) ==
    CASE ctype \in {"sw.supervisor", "sw.l4t"} -> validateVersionRange(value, label)
      [] ctype = "hw.device-type" -> Ok(TRUE)
      [] ctype = "arch.sw" ->
            IF value \notin SupportedArchitectures
            THEN Throw(ValidationError("Invalid value for label '" \o label \o "'. "
                       \o "Expected a valid architecture string " \o "got '" \o value \o "'"))
            ELSE Ok(TRUE)
      [] OTHER ->
            Throw(TypeError("supportedContractRequirementLabels[ctype].validate is not a function"))

\* supportedContractRequirementLabels[key].transform(value)
ContractTransform(key, value) ==
    CASE key \in {"sw.supervisor", "sw.l4t"} -> Ok([type |-> key, version |-> value])
      [] key \in {"hw.device-type", "arch.sw"} -> Ok([type |-> key, slug |-> value])
      [] OTHER -> Throw(TypeError("parser.transform is not a function"))

NAMESPACED_LABEL_ERROR_MESSAGE ==
    "labels cannot use the \"io.balena.private\" namespace"

\* ValidateLabel with the service context of the namespace rejection lost
ValidateLabelUnscoped(name, value, serviceName) ==
    IF StartsWith(name, "io.balena.private")
    THEN Throw(ValidationError(NAMESPACED_LABEL_ERROR_MESSAGE))
    ELSE IF StartsWith(name, contractRequirementLabelPrefix)
              /\ InSupportedContractRequirementLabels(
                     RemovePrefix(name, contractRequirementLabelPrefix))
         THEN ContractValidate(RemovePrefix(name, contractRequirementLabelPrefix),
                               value, name)
         ELSE Ok(TRUE)

\* one iteration of the loop of validateLabels
ValidateLabel(name, value, serviceName) ==
    IF StartsWith(name, "io.balena.private")
    THEN IF serviceName # ""
         THEN Throw(ServiceError(NAMESPACED_LABEL_ERROR_MESSAGE, serviceName))
         ELSE Throw(ValidationError(NAMESPACED_LABEL_ERROR_MESSAGE))
    ELSE IF StartsWith(name, contractRequirementLabelPrefix)
              /\ InSupportedContractRequirementLabels(
                     RemovePrefix(name, contractRequirementLabelPrefix))
         THEN ContractValidate(RemovePrefix(name, contractRequirementLabelPrefix),
                               value, name)
         ELSE Ok(TRUE)

\* serviceName "" stands for the omitted (undefined) argument: the code
\* only tests its truthiness
ValidateEntries(entries, serviceName) ==
    Collect([i \in 1..Len(entries) |->
                ValidateLabel(entries[i].key, entries[i].value, serviceName)])

validateLabels(labels, serviceName) ==
    ValidateEntries(ObjectEntries(labels), serviceName)

----------------------------------------------------------------------------
(* Build config *)

BUILD_CONFIG_DENY_LIST ==
    <<"additional_contexts", "cache_to", "dockerfile_inline", "entitlements",
      "isolation", "network", "no_cache", "platforms", "privileged", "pull",
      "secrets", "ssh", "tags", "ulimits">>

\* FirstDenied with the loop started one field late
FirstDeniedAfterHead(denyList, o) ==
    LET hit == {i \in 2..Len(denyList) : Has(o, denyList[i])}
    IN  IF hit = {} THEN "" ELSE denyList[Min(hit)]

\* the first field of a deny-list that is `in` the object, or "" if none
FirstDenied(denyList, o) ==
    LET hit == {i \in 1..Len(denyList) : Has(o, denyList[i])}
    IN  IF hit = {} THEN "" ELSE denyList[Min(hit)]

\* `x || '.'`
OrDot(x) == IF x = "" THEN "." ELSE x

\* the context block of normalizeServiceBuild
BuildContext(build, filePath, dir, serviceName) ==
    IF StringOf(build, "context") # ""
    THEN IF EndsWith(build.context, ".git")
         THEN Throw(ServiceError(
                  "service.build.context cannot be a remote context", serviceName))
         ELSE Ok(Assign(build, "context",
                     OrDot(PathRelative(PathDirname(filePath), build.context, dir))))
    ELSE Ok(build)

\* the label block of normalizeServiceBuild, then its context block
BuildLabels(build, labelCheck, filePath, dir, serviceName) ==
    IF ~labelCheck.ok THEN labelCheck
    ELSE BuildContext(build, filePath, dir, serviceName)

normalizeServiceBuild(rawServiceBuild, filePath, dir, serviceName) ==
    IF FirstDenied(BUILD_CONFIG_DENY_LIST, rawServiceBuild) # ""
    THEN Throw(ServiceError(
             "service.build." \o FirstDenied(BUILD_CONFIG_DENY_LIST, rawServiceBuild)
             \o " is not allowed", serviceName))
    ELSE BuildLabels(rawServiceBuild,
                     IF Has(rawServiceBuild, "labels")
                     THEN validateLabels(rawServiceBuild.labels, serviceName)
                     ELSE Ok(TRUE),
                     filePath, dir, serviceName)

----------------------------------------------------------------------------
(* JSON.stringify of the flat objects the error messages embed *)

RECURSIVE JoinNonEmpty(_)
JoinNonEmpty(parts) ==
    IF parts = << >> THEN ""
    ELSE LET rest == JoinNonEmpty(Tail(parts))
         IN  IF Head(parts) = "" THEN rest
             ELSE IF rest = "" THEN Head(parts)
             ELSE Head(parts) \o "," \o rest

JSONString(o, f) ==
    IF Has(o, f) THEN "\"" \o f \o "\":\"" \o o[f] \o "\"" ELSE ""
JSONBoolean(o, f) ==
    IF Has(o, f) THEN "\"" \o f \o "\":" \o (IF o[f] THEN "true" ELSE "false")
    ELSE ""
JSONEmptyObject(o, f) == IF Has(o, f) THEN "\"" \o f \o "\":{}" ELSE ""

StringifyDependsOnConfig(c) ==
    IF IsJSString(c) THEN "\"" \o c.jsstring \o "\""
    ELSE "{" \o JoinNonEmpty(<<JSONString(c, "condition"),
                               JSONBoolean(c, "restart"),
                               JSONBoolean(c, "required")>>) \o "}"

\* reached only with the volume and tmpfs sub-objects absent or empty
StringifyVolumeConfig(v) ==
    "{" \o JoinNonEmpty(<<JSONString(v, "type"), JSONString(v, "source"),
                          JSONString(v, "target"), JSONBoolean(v, "read_only"),
                          JSONEmptyObject(v, "volume"),
                          JSONEmptyObject(v, "tmpfs")>>) \o "}"

----------------------------------------------------------------------------
(* Long syntax to short syntax *)

PortIgnoredFields == {"name", "app_protocol", "mode"}

\* the string pushed for one long-syntax port object
PortString(port) ==
    (IF StringOf(port, "host_ip") # "" THEN port.host_ip \o ":" ELSE "")
    \o (IF StringOf(port, "published") # "" THEN port.published \o ":" ELSE "")
    \o (IF Has(port, "target") THEN ToString(port.target) ELSE "undefined")
    \o (IF ~(Has(port, "protocol") /\ port.protocol = "tcp")
        THEN "/" \o TemplateOf(port, "protocol") ELSE "")

\* returns the short-syntax list; PortsAfterDowngrade is what the loop leaves
\* in the caller's port objects
longToShortSyntaxPorts(ports) ==
    [i \in 1..Len(ports) |->
        IF IsJSString(ports[i]) THEN ports[i]
        ELSE JSString(PortString(Delete(ports[i], PortIgnoredFields)))]

PortsAfterDowngrade(ports) ==
    [i \in 1..Len(ports) |->
        IF IsJSString(ports[i]) THEN ports[i]
        ELSE Delete(ports[i], PortIgnoredFields)]

\* the condition under which the loop of longToShortSyntaxDependsOn throws
DependsOnUnsupported(config) ==
    \/ ~(Has(config, "condition") /\ config.condition = "service_started")
    \/ ~(Has(config, "required") /\ config.required = TRUE)

\* one iteration of the loop of longToShortSyntaxDependsOn: the throw, or
\* Ok of what it pushes (nothing when required is false)
DependsOnStep(serviceName, dependsOnConfig) ==
    IF DependsOnUnsupported(dependsOnConfig)
    THEN Throw(ServiceError(
             "Long syntax depends_on " \o StringifyDependsOnConfig(dependsOnConfig)
             \o " for service \"" \o serviceName \o "\" is not yet supported",
             serviceName))
    ELSE IF ~(Has(dependsOnConfig, "required") /\ dependsOnConfig.required = FALSE)
    THEN Ok(<<JSString(serviceName)>>)
    ELSE Ok(<< >>)

RECURSIVE Flatten(_)
Flatten(lists) ==
    IF lists = << >> THEN << >> ELSE Head(lists) \o Flatten(Tail(lists))
FlattenResult(r) == IF r.ok THEN Ok(Flatten(r.value)) ELSE r

DependsOnEntries(entries) ==
    FlattenResult(Collect([i \in 1..Len(entries) |->
                              DependsOnStep(entries[i].key, entries[i].value)]))

longToShortSyntaxDependsOn(dependsOn) == DependsOnEntries(ObjectEntries(dependsOn))

\* new RegExp('^(?!/)').test(x): x, coerced to a string, does not start with /
CDIRegexTest(o, f) == ~StartsWith(TemplateOf(o, f), "/")

\* DeviceStep with the test of the source alone
DeviceStepSourceOnly(deviceConfig, serviceName) ==
    IF CDIRegexTest(deviceConfig, "source")
    THEN Throw(ServiceError("devices config with CDI syntax is not allowed",
                            serviceName))
    ELSE Ok(JSString(TemplateOf(deviceConfig, "source") \o ":"
                     \o TemplateOf(deviceConfig, "target") \o ":"
                     \o TemplateOf(deviceConfig, "permissions")))

\* one iteration of the loop of longToShortSyntaxDevices
DeviceStep(deviceConfig, serviceName) ==
    IF CDIRegexTest(deviceConfig, "source") \/ CDIRegexTest(deviceConfig, "target")
    THEN Throw(ServiceError("devices config with CDI syntax is not allowed",
                            serviceName))
    ELSE Ok(JSString(TemplateOf(deviceConfig, "source") \o ":"
                     \o TemplateOf(deviceConfig, "target") \o ":"
                     \o TemplateOf(deviceConfig, "permissions")))

longToShortSyntaxDevices(devices, serviceName) ==
    Collect([i \in 1..Len(devices) |-> DeviceStep(devices[i], serviceName)])

bindMountByLabel ==
    << <<"io.balena.features.balena-socket", {"/var/run/docker.sock"}>>,
       <<"io.balena.features.balena-socket", {"/var/run/balena-engine.sock"}>>,
       <<"io.balena.features.dbus", {"/run/dbus"}>>,
       <<"io.balena.features.sysfs", {"/sys"}>>,
       <<"io.balena.features.procfs", {"/proc"}>>,
       <<"io.balena.features.kernel-modules", {"/lib/modules"}>>,
       <<"io.balena.features.firmware", {"/lib/firmware"}>>,
       <<"io.balena.features.journal-logs",
         {"/var/log/journal", "/run/log/journal", "/etc/machine-id"}>> >>

allowedBindMounts == UNION {bindMountByLabel[i][2] : i \in 1..Len(bindMountByLabel)}

\* the callback of bindMountByLabel.forEach: the label pushed, if any
BindMountLabel(row, volumes) ==
    IF \A m \in row[2] :
           \E j \in 1..Len(volumes) : StringOf(volumes[j], "source") = m
    THEN <<row[1]>> ELSE << >>

allowedBindMountsToLabels(volumes) ==
    Flatten([i \in 1..Len(bindMountByLabel) |->
                BindMountLabel(bindMountByLabel[i], volumes)])

VolumeRejectedTypes == {"bind", "image", "npipe", "cluster"}

\* what one iteration of the loop of longToShortSyntaxVolumes does with v:
\* "skip" (continue), "throw", "volume" (push a volume), "tmpfs" (push a
\* tmpfs target) or "none"
VolumeStep(v, serviceName) ==
    LET type == StringOf(v, "type")
        isLongSyntaxTmpfs ==
            StringOf(v, "type") = "tmpfs" /\ Has(v, "tmpfs") /\ DOMAIN v.tmpfs # {}
        isLongSyntaxVolume ==
            StringOf(v, "type") = "volume" /\ Has(v, "volume") /\ DOMAIN v.volume # {}
    IN  IF StringOf(v, "source") # "" /\ v.source \in allowedBindMounts
        THEN [do |-> "skip"]
        ELSE IF type \in VolumeRejectedTypes
        THEN [do |-> "throw",
              error |-> ServiceError("service.volumes cannot be of type \""
                                     \o type \o "\"", serviceName)]
        ELSE IF isLongSyntaxTmpfs \/ isLongSyntaxVolume
        THEN [do |-> "throw",
              error |-> ServiceError("long syntax service.volumes are not supported",
                                     serviceName)]
        ELSE IF type = "volume"
                  /\ (StringOf(v, "source") = "" \/ StringOf(v, "target") = "")
        THEN [do |-> "throw",
              error |-> ServiceError("service.volumes " \o StringifyVolumeConfig(v)
                                     \o " must specify source and target", serviceName)]
        ELSE IF type = "volume"
        THEN [do |-> "volume",
              push |-> JSString(v.source \o ":" \o v.target
                         \o (IF Has(v, "read_only") /\ v.read_only THEN ":ro" ELSE ""))]
        ELSE IF type = "tmpfs" /\ StringOf(v, "target") # ""
        THEN [do |-> "tmpfs", push |-> v.target]
        ELSE [do |-> "none"]

\* what the iterations that did `kind` pushed, in order
Pushed(steps, kind) ==
    Flatten([i \in 1..Len(steps) |->
                IF steps[i].do = kind THEN <<steps[i].push>> ELSE << >>])

\* VolumeSteps with the throw of the last offending iteration
VolumeStepsLastThrow(steps) ==
    IF \E i \in 1..Len(steps) : steps[i].do = "throw"
    THEN Throw(steps[CHOOSE i \in 1..Len(steps) :
                   /\ steps[i].do = "throw"
                   /\ \A j \in (i + 1)..Len(steps) : steps[j].do # "throw"].error)
    ELSE Ok([shortSyntaxVolumes |-> Pushed(steps, "volume"),
             shortSyntaxTmpfs |-> Pushed(steps, "tmpfs")])

VolumeSteps(steps) ==
    IF \E i \in 1..Len(steps) : steps[i].do = "throw"
    THEN Throw(steps[Min({i \in 1..Len(steps) : steps[i].do = "throw"})].error)
    ELSE Ok([shortSyntaxVolumes |-> Pushed(steps, "volume"),
             shortSyntaxTmpfs |-> Pushed(steps, "tmpfs")])

longToShortSyntaxVolumes(volumes, serviceName) ==
    VolumeSteps([i \in 1..Len(volumes) |-> VolumeStep(volumes[i], serviceName)])

----------------------------------------------------------------------------
(* normalizeService *)

SERVICE_CONFIG_DENY_LIST ==
    <<"blkio_config", "configs", "cpu_count", "cpu_percent", "cpu_period",
      "credential_spec", "deploy", "develop", "external_links", "gpus",
      "isolation", "links", "logging", "mem_swappiness", "memswap_limit",
      "oom_kill_disable", "platform", "pull_policy", "runtime", "scale",
      "secrets", "stdin_open", "storage_opt">>

\* {...a, ...b} of two objects iterated by Object.entries: a key of a keeps
\* its place and takes b's value, the new keys of b follow in b's order
Spread(a, b) ==
    LET fresh == SelectSeq(b, LAMBDA e : e.key \notin Keys(a))
    IN  [i \in 1..Len(a) |->
            IF a[i].key \in Keys(b) THEN Entry(a[i].key, Lookup(b, a[i].key))
            ELSE a[i]] \o fresh

\* Object.fromEntries(labels.map((label) => [label, '1']))
RECURSIVE LabelsFromEntries(_)
LabelsFromEntries(labels) ==
    IF labels = << >> THEN << >>
    ELSE LET rest == LabelsFromEntries(SubSeq(labels, 1, Len(labels) - 1))
             l == labels[Len(labels)]
         IN  IF l \in Keys(rest) THEN rest ELSE Append(rest, Entry(l, "1"))

\* the checks of normalizeService that precede every downgrade, in order;
\* each is Ok or the rejection it throws
ServiceChecks(rawService, filePath, dir, serviceName) ==
    LET service == rawService
        attachments == IF Has(rawService, "networks")
                       THEN ObjectEntries(rawService.networks) ELSE << >>
    IN  << IF FirstDenied(SERVICE_CONFIG_DENY_LIST, service) # ""
           THEN Throw(ServiceError(
                    "service." \o FirstDenied(SERVICE_CONFIG_DENY_LIST, service)
                    \o " is not allowed", serviceName))
           ELSE Ok(TRUE),
           IF Has(rawService, "build")
           THEN normalizeServiceBuild(rawService.build, filePath, dir, serviceName)
           ELSE Ok(TRUE),
           IF Has(service, "labels")
           THEN validateLabels(service.labels, serviceName)
           ELSE Ok(TRUE),
           IF Has(service, "network_mode")
                /\ StartsWith(service.network_mode, "container:")
           THEN Throw(ServiceError(
                    "service.network_mode container:${containerId} is not allowed",
                    serviceName))
           ELSE Ok(TRUE),
           IF Has(service, "pid") /\ StartsWith(service.pid, "container:")
           THEN Throw(ServiceError(
                    "service.pid container:${containerId} is not allowed",
                    serviceName))
           ELSE Ok(TRUE),
           IF Has(service, "security_opt")
                /\ \E i \in 1..Len(service.security_opt) :
                       ~Includes(service.security_opt[i], "no-new-privileges")
           THEN Throw(ServiceError(
                    "Only no-new-privileges is allowed for service.security_opt",
                    serviceName))
           ELSE Ok(TRUE),
           IF Has(service, "volumes_from")
                /\ \E i \in 1..Len(service.volumes_from) :
                       StartsWith(service.volumes_from[i], "container:")
           THEN Throw(ServiceError(
                    "service.volumes_from which references a containerId is not allowed",
                    serviceName))
           ELSE Ok(TRUE),
           IF StringOf(service, "ipc") # "" /\ service.ipc # "shareable"
           THEN Throw(ServiceError(
                    "service.ipc which references service:${serviceName} is not supported",
                    serviceName))
           ELSE Ok(TRUE),
           IF \E i \in 1..Len(attachments) :
                  Has(attachments[i].value, "link_local_ips")
           THEN Throw(ServiceError(
                    "service.network.link_local_ips is not supported", serviceName))
           ELSE Ok(TRUE),
           IF Has(service, "pids_limit") /\ service.pids_limit # 0
                /\ service.pids_limit < 0
           THEN Throw(ServiceError(
                    "negative service.pids_limit is not supported", serviceName))
           ELSE Ok(TRUE) >>

\* WithImageTag with the image never added to build.tags
WithoutImageTag(service) == service

\* the part of normalizeService after the downgrades: build tags and the
\* fields deleted without rejecting
WithImageTag(service) ==
    IF StringOf(service, "image") # "" /\ Has(service, "build")
    THEN Assign(service, "build",
             Assign(service.build, "tags",
                 (IF Has(service.build, "tags") THEN service.build.tags ELSE << >>)
                 \o <<service.image>>))
    ELSE service

\* DroppedFields with expose left on the service
DroppedFieldsKeepingExpose(service) ==
    {"env_file", "label_file"}
    \cup (IF StringOf(service, "container_name") # ""
          THEN {"container_name"} ELSE {})

DroppedFields(service) ==
    {"env_file", "label_file"}
    \cup (IF Has(service, "expose") THEN {"expose"} ELSE {})
    \cup (IF StringOf(service, "container_name") # ""
          THEN {"container_name"} ELSE {})

ServiceFinish(service) == Delete(WithImageTag(service), DroppedFields(service))

\* `service.labels = {...service.labels, ...fromEntries(labels)}`, done
\* when allowedBindMountsToLabels returned at least one label
WithBindMountLabels(s, labels) ==
    IF Len(labels) > 0
    THEN Assign(s, "labels",
             Spread(IF Has(s, "labels") THEN ObjectEntries(s.labels) ELSE << >>,
                    LabelsFromEntries(labels)))
    ELSE s

\* WithShortVolumes with an empty list of volumes left on the service
WithShortVolumesKeepingEmpty(s, short) ==
    Assign(s, "volumes", short.shortSyntaxVolumes)

\* the assignments that follow longToShortSyntaxVolumes
WithShortVolumes(s, short) ==
    IF Len(short.shortSyntaxVolumes) > 0
    THEN Assign(s, "volumes", short.shortSyntaxVolumes)
    ELSE Delete(s, {"volumes"})
WithShortTmpfs(s, short) ==
    IF Len(short.shortSyntaxTmpfs) > 0
    THEN Assign(s, "tmpfs",
             (IF Has(s, "tmpfs") THEN s.tmpfs ELSE << >>) \o short.shortSyntaxTmpfs)
    ELSE s
AfterVolumes(labelled, short) ==
    IF ~short.ok THEN short
    ELSE Ok(WithShortTmpfs(WithShortVolumes(labelled, short.value), short.value))

\* the blocks of normalizeService from the entrypoint to the volumes, each
\* applied to the outcome r of the block before it
EntrypointBlock(s) ==
    IF Has(s, "entrypoint") /\ s.entrypoint = JSNull
    THEN Delete(s, {"entrypoint"}) ELSE s
PortsBlock(s) ==
    IF Has(s, "ports") THEN Assign(s, "ports", longToShortSyntaxPorts(s.ports))
    ELSE s
DependsOnBlock(s) ==
    IF Has(s, "depends_on")
    THEN AssignResult(s, "depends_on", longToShortSyntaxDependsOn(s.depends_on))
    ELSE Ok(s)
DevicesBlock(r, serviceName) ==
    IF ~r.ok THEN r
    ELSE IF Has(r.value, "devices")
    THEN AssignResult(r.value, "devices",
                      longToShortSyntaxDevices(r.value.devices, serviceName))
    ELSE r
VolumesBlock(r, serviceName) ==
    IF ~r.ok THEN r
    ELSE IF Has(r.value, "volumes")
    THEN AfterVolumes(
             WithBindMountLabels(r.value, allowedBindMountsToLabels(r.value.volumes)),
             longToShortSyntaxVolumes(r.value.volumes, serviceName))
    ELSE r
FinishBlock(r) == IF ~r.ok THEN r ELSE Ok(ServiceFinish(r.value))

\* what the downgrade of the ports leaves in the caller's rawService
RawAfterPorts(rawService) ==
    IF Has(rawService, "ports")
    THEN Assign(rawService, "ports", PortsAfterDowngrade(rawService.ports))
    ELSE rawService

\* ServiceDowngrades with the volumes downgraded before the devices
ServiceDowngradesVolumesFirst(service, rawService, serviceName) ==
    [rawAfter |-> RawAfterPorts(rawService)]
    @@ FinishBlock(DevicesBlock(VolumesBlock(
           DependsOnBlock(PortsBlock(EntrypointBlock(service))),
           serviceName), serviceName))

\* normalizeService once its checks have passed and service.build is set
ServiceDowngrades(service, rawService, serviceName) ==
    [rawAfter |-> RawAfterPorts(rawService)]
    @@ FinishBlock(VolumesBlock(DevicesBlock(
           DependsOnBlock(PortsBlock(EntrypointBlock(service))),
           serviceName), serviceName))

ServiceAfterChecks(checks, rawService, serviceName) ==
    IF \E i \in 1..Len(checks) : ~checks[i].ok
    THEN [rawAfter |-> rawService] @@ Collect(checks)
    ELSE ServiceDowngrades(
             IF Has(rawService, "build")
             THEN Assign(rawService, "build", checks[2].value) ELSE rawService,
             rawService, serviceName)

\* normalizeService: Ok(service) or the rejection; rawAfter is the caller's
\* rawService when the call ends (the port objects are shared with it)
normalizeService(rawService, filePath, dir, serviceName) ==
    ServiceAfterChecks(ServiceChecks(rawService, filePath, dir, serviceName),
                       rawService, serviceName)

----------------------------------------------------------------------------
(* normalizeNetwork, normalizeVolume *)

NETWORK_CONFIG_DENY_LIST == <<"attachable", "external">>
VOLUME_CONFIG_DENY_LIST == <<"external">>

\* the checks of normalizeNetwork, in order
NetworkChecks(network) ==
    << IF FirstDenied(NETWORK_CONFIG_DENY_LIST, network) # ""
       THEN Throw(ValidationError(
                "network." \o FirstDenied(NETWORK_CONFIG_DENY_LIST, network)
                \o " is not allowed"))
       ELSE Ok(TRUE),
       IF StringOf(network, "driver") # ""
            /\ network.driver \notin {"bridge", "default"}
       THEN Throw(ValidationError(
                "Only \"bridge\" and \"default\" are supported for network.driver, got \""
                \o network.driver \o "\""))
       ELSE Ok(TRUE),
       IF Has(network, "labels") THEN validateLabels(network.labels, "")
       ELSE Ok(TRUE),
       IF Has(network, "ipam") /\ Has(network.ipam, "config")
            /\ \E i \in 1..Len(network.ipam.config) :
                   Has(network.ipam.config[i], "aux_addresses")
       THEN Throw(ValidationError(
                "network.ipam.config.aux_addresses is not supported"))
       ELSE Ok(TRUE),
       IF Has(network, "enable_ipv6") /\ network.enable_ipv6
       THEN Throw(ValidationError("enable_ipv6 is not supported"))
       ELSE Ok(TRUE) >>

\* the entity, unless one of the checks throws
EntityAfterChecks(entity, checks) ==
    IF Collect(checks).ok THEN Ok(entity) ELSE Collect(checks)

normalizeNetwork(rawNetwork) == EntityAfterChecks(rawNetwork, NetworkChecks(rawNetwork))

\* the checks of normalizeVolume, in order
VolumeChecks(volume) ==
    << IF StringOf(volume, "driver") # ""
            /\ volume.driver \notin {"local", "default"}
       THEN Throw(ValidationError(
                "Only \"local\" and \"default\" are supported for volume.driver, got \""
                \o volume.driver \o "\""))
       ELSE Ok(TRUE),
       IF FirstDenied(VOLUME_CONFIG_DENY_LIST, volume) # ""
       THEN Throw(ValidationError(
                "volume." \o FirstDenied(VOLUME_CONFIG_DENY_LIST, volume)
                \o " is not allowed"))
       ELSE Ok(TRUE),
       IF Has(volume, "labels") THEN validateLabels(volume.labels, "")
       ELSE Ok(TRUE) >>

\* normalizeVolume with none of its checks
normalizeVolumeUnchecked(rawVolume) == Ok(rawVolume)

normalizeVolume(rawVolume) == EntityAfterChecks(rawVolume, VolumeChecks(rawVolume))

----------------------------------------------------------------------------
(* removeProjectName *)

RECURSIVE removeProjectName(_)
\* the loop over obj[kind], for kind "networks" or "volumes"
RemoveNested(obj, kind) ==
    IF Has(obj, kind)
    THEN Assign(obj, kind,
             [i \in 1..Len(obj[kind]) |->
                 Entry(obj[kind][i].key, removeProjectName(obj[kind][i].value))])
    ELSE obj
RemoveName(obj) ==
    IF StringOf(obj, "name") # "" THEN Delete(obj, {"name"}) ELSE obj
removeProjectName(obj) ==
    RemoveNested(RemoveNested(RemoveName(obj), "networks"), "volumes")

\* the truthiness of a top-level value held as JSNull, JSFalse or an object
JSTruthy(v) ==
    ~(v.jstype = "null") /\ ~(v.jstype = "boolean" /\ ~v.value)

----------------------------------------------------------------------------
(* toImageDescriptors *)

JSUndefined == [jstype |-> "undefined"]

\* the flatMap callback of createContractFromLabels: the entries one label
\* contributes, or the TypeError of calling a missing transform
Singleton(r) == IF r.ok THEN Ok(<<r.value>>) ELSE r
ContractEntries(key, value) ==
    IF ~StartsWith(key, contractRequirementLabelPrefix) THEN Ok(<< >>)
    ELSE IF ~InSupportedContractRequirementLabels(
                 RemovePrefix(key, contractRequirementLabelPrefix))
    THEN Ok(<< >>)
    ELSE Singleton(ContractTransform(
             RemovePrefix(key, contractRequirementLabelPrefix), value))

FlatMapContract(entries) ==
    FlattenResult(Collect([i \in 1..Len(entries) |->
                              ContractEntries(entries[i].key, entries[i].value)]))

\* the contract built from the requires list, JSNull when it is empty
ContractOf(serviceName, requires) ==
    IF ~requires.ok THEN requires
    ELSE IF Len(requires.value) = 0 THEN Ok(JSNull)
    ELSE Ok([type |-> "sw.container",
             slug |-> "contract-for-" \o serviceName,
             requires |-> requires.value])

createContractFromLabels(serviceName, labels) ==
    ContractOf(serviceName, FlatMapContract(ObjectEntries(labels)))

\* `...(contract && { contract })`
WithContract(descriptor, contract) ==
    IF ~contract.ok THEN contract
    ELSE IF contract.value = JSNull THEN Ok(descriptor)
    ELSE Ok(Assign(descriptor, "contract", contract.value))

\* the image of the descriptor: service.image, or service.build (`build!`)
DescriptorImage(service) ==
    IF StringOf(service, "image") # "" /\ ~Has(service, "build")
    THEN JSString(service.image)
    ELSE IF Has(service, "build") THEN service.build ELSE JSUndefined

createImageDescriptor(serviceName, service) ==
    WithContract([serviceName |-> serviceName, image |-> DescriptorImage(service)],
                 createContractFromLabels(serviceName,
                     IF Has(service, "labels") THEN service.labels ELSE << >>))

DescribeEntries(entries) ==
    Collect([i \in 1..Len(entries) |->
                createImageDescriptor(entries[i].key, entries[i].value)])

toImageDescriptors(c) == DescribeEntries(ObjectEntries(c.services))

----------------------------------------------------------------------------
(* parse: the output of the binary, toComposeError *)

\* JSON.parse, over the texts the binary writes in the model: the lines of
\* stderr (logrus entries, outputError responses) and the stdout documents
JSONParse(text) ==
    CASE text = "null" -> Ok(JSNull)
      [] text = "{\"level\":\"warning\",\"message\":\"version is obsolete\"}" ->
            Ok([level |-> "warning", message |-> "version is obsolete"])
      [] text = "{\"level\":\"warn\",\"message\":\"unset variable\"}" ->
            Ok([level |-> "warn", message |-> "unset variable"])
      [] text = "{\"level\":\"info\",\"message\":\"loading\"}" ->
            Ok([level |-> "info", message |-> "loading"])
      [] text = "{\"level\":\"debug\",\"message\":\"resolved\"}" ->
            Ok([level |-> "debug", message |-> "resolved"])
      [] text = "{\"level\":\"error\",\"message\":\"invalid interpolation\"}" ->
            Ok([level |-> "error", message |-> "invalid interpolation"])
      [] text = "{\"level\":\"fatal\",\"message\":\"cannot load project\"}" ->
            Ok([level |-> "fatal", message |-> "cannot load project"])
      [] text = "{\"level\":\"panic\",\"message\":\"nil map\"}" ->
            Ok([level |-> "panic", message |-> "nil map"])
      [] text = "{\"error\":true,\"name\":\"ParseError\",\"message\":\"yaml: line 3\"}" ->
            Ok([error |-> TRUE, name |-> "ParseError", message |-> "yaml: line 3"])
      [] text = "{\"level\":\"error\"}" -> Ok([level |-> "error"])
      [] text = "{\"services\":{\"app\":{\"image\":\"myapp:latest\"}}}" ->
            Ok([services |-> <<Entry("app", [image |-> "myapp:latest"])>>])
      [] text = "{\"services\":{\"app\":{\"build\":{\"context\":\"/proj/app\"}}}}" ->
            Ok([services |-> <<Entry("app", [build |-> [context |-> "/proj/app"]])>>])
      [] text = "{\"services\":{\"app\":{\"image\":\"myapp:latest\",\"deploy\":{}}}}" ->
            Ok([services |->
                  <<Entry("app", [image |-> "myapp:latest", deploy |-> JSEmptyObject])>>])
      [] OTHER -> Throw([name |-> "SyntaxError",
                         message |-> "Unexpected token in JSON"])

\* LineStep with a diagnostic that has no level taken for a warning
LineStepDefaultWarn(line, parsed) ==
    IF ~parsed.ok \/ parsed.value = JSNull
    THEN [errors |-> << >>, warned |-> 1]
    ELSE IF StringOf(parsed.value, "message") # ""
    THEN [errors |->
            <<ComposeError(parsed.value.message,
                           IF Has(parsed.value, "level") THEN parsed.value.level
                           ELSE "warn",
                           IF Has(parsed.value, "name") THEN parsed.value.name
                           ELSE "ComposeError")>>,
          warned |-> 0]
    ELSE [errors |-> << >>, warned |-> 0]

\* the callback of lines.forEach: the ComposeError pushed, if any, and
\* whether the catch block warned (JSON.parse threw, or reading the
\* message of null did)
LineStep(line, parsed) ==
    IF ~parsed.ok \/ parsed.value = JSNull
    THEN [errors |-> << >>, warned |-> 1]
    ELSE IF StringOf(parsed.value, "message") # ""
    THEN [errors |->
            <<ComposeError(parsed.value.message,
                           IF Has(parsed.value, "level") THEN parsed.value.level
                           ELSE "error",
                           IF Has(parsed.value, "name") THEN parsed.value.name
                           ELSE "ComposeError")>>,
          warned |-> 0]
    ELSE [errors |-> << >>, warned |-> 0]

\* toComposeError(stderr): the errors, in the order of the lines, and the
\* number of warnings; blank lines are filtered out first
toComposeError(stderr) ==
    LET lines == SelectSeq(stderr,
                     LAMBDA line : \E i \in 1..Len(line) : SubSeq(line, i, i) # " ")
        steps == [i \in 1..Len(lines) |-> LineStep(lines[i], JSONParse(lines[i]))]
    IN  [errors |-> Flatten([i \in 1..Len(steps) |-> steps[i].errors]),
         warnings |-> Len(SelectSeq(steps, LAMBDA step : step.warned = 1))]

----------------------------------------------------------------------------
(* Bounds and the documents the model draws *)

MaxServices == 2
MaxNetworks == 2
MaxVolumes == 2
MaxLabels == 2
MaxPorts == 2
MaxDependsOn == 2
MaxMounts == 3
MaxViolations == 2
MaxStderrLines == 2
MaxVolumeEntries == 2
MaxSecurityOpts == 2
MaxDevices == 2

ServiceNames == <<"app", "db", "cache">>
NetworkNames == <<"default", "backend", "frontend">>
VolumeNames == <<"data", "logs", "media">>
DependencyNames == <<"db", "cache", "queue">>

\* the objects with at most n keys, taken in the order of names, whose
\* values are drawn from pool
Dicts(names, pool, n) ==
    UNION {{[i \in 1..k |-> Entry(names[i], f[i])] : f \in [1..k -> pool]} :
           k \in 0..n}
NonEmptyDicts(names, pool, n) == Dicts(names, pool, n) \ {<< >>}

\* the arrays of 1..n elements of pool
Arrays(pool, n) == UNION {[1..k -> pool] : k \in 1..n}

Requires(ctype) == contractRequirementLabelPrefix \o ctype

LabelPool ==
    {Entry(Requires("sw.supervisor"), ">=16.0.0"),
     Entry(Requires("sw.supervisor"), "not-a-range"),
     Entry(Requires("sw.l4t"), "32.4.4"),
     Entry(Requires("hw.device-type"), "raspberrypi4-64"),
     Entry(Requires("arch.sw"), "aarch64"),
     Entry(Requires("arch.sw"), "risc-v"),
     Entry(Requires("gpu"), "1"),
     Entry(Requires("toString"), "1"),
     Entry("io.balena.private.secret", "1"),
     Entry("io.balena.features.dbus", "1"),
     Entry("io.balena.other.label", "value")}

\* the label maps of at most MaxLabels labels, in every order
LabelDicts ==
    UNION {{l \in [1..k -> LabelPool] :
              \A i, j \in 1..k : i # j => l[i].key # l[j].key} :
           k \in 0..MaxLabels}

\* an optional field: absent, or one of the values
Optional(f, values) == {<< >>} \cup {[k \in {f} |-> v] : v \in values}

ProjectName == "2f1c7a3e-uuid"

\* --- documents that differ in how many entities they hold and which reject
OrderServicePool ==
    {[image |-> "myapp:latest"],
     [image |-> "myapp:latest", deploy |-> JSEmptyObject]}
OrderNetworkPool ==
    {[name |-> ProjectName \o "_net", driver |-> "bridge"],
     [name |-> ProjectName \o "_net", driver |-> "overlay"]}
OrderVolumePool ==
    {[name |-> ProjectName \o "_vol"],
     [name |-> ProjectName \o "_vol", driver |-> "nfs"]}

OrderDocuments ==
    {[name |-> ProjectName, services |-> s] @@ n @@ v :
        s \in Dicts(ServiceNames, OrderServicePool, MaxServices),
        n \in {<< >>} \cup {[networks |-> d] :
                 d \in Dicts(NetworkNames, OrderNetworkPool, MaxNetworks)},
        v \in {<< >>} \cup {[volumes |-> d] :
                 d \in Dicts(VolumeNames, OrderVolumePool, MaxVolumes)}}

\* --- one service, varied in shape
LongPort(fields) == [target |-> 80, protocol |-> "tcp", mode |-> "ingress"] @@ fields

BuildPool ==
    {[context |-> "/proj/app"],
     [context |-> "/proj"],
     [context |-> "/proj/app", tags |-> <<"extra:tag">>],
     [context |-> "/proj/app", network |-> JSNull],
     [context |-> "https://github.com/org/repo.git"],
     [context |-> "https://github.com/org/repo.git#main"]}

ShapeServices ==
    {image @@ build @@ denied @@ dependsOn @@ devices @@ volumes @@ ports :
        image \in Optional("image", {"myapp:latest"}),
        build \in Optional("build", BuildPool),
        denied \in Optional("deploy", {JSNull}) \cup Optional("secrets", {JSFalse}),
        dependsOn \in Optional("depends_on",
            {<<Entry("db", [condition |-> "service_started", required |-> TRUE])>>,
             <<Entry("db", [condition |-> "service_started", required |-> FALSE])>>}),
        devices \in Optional("devices",
            {<<[source |-> "/dev/ttyUSB0", target |-> "/dev/ttyUSB0",
                permissions |-> "rwm"]>>,
             <<[source |-> "vendor.com/device=foo", target |-> "vendor.com/device=foo",
                permissions |-> "rwm"]>>}),
        volumes \in Optional("volumes",
            {<<[type |-> "volume", source |-> "data", target |-> "/data"]>>,
             <<[type |-> "bind", source |-> "/var/run/docker.sock",
                target |-> "/var/run/docker.sock"]>>}),
        ports \in Optional("ports", {<<LongPort([published |-> "8080"])>>})}

SingleService(s) == [name |-> ProjectName, services |-> <<Entry("app", s)>>]

\* --- labels on a service, a build config, a network or a volume
LabelDocuments ==
    UNION {{SingleService([image |-> "myapp:latest", labels |-> l]),
            SingleService([build |-> [context |-> "/proj/app", labels |-> l]]),
            SingleService([image |-> "myapp:latest"])
                @@ [networks |-> <<Entry("default", [labels |-> l])>>],
            SingleService([image |-> "myapp:latest"])
                @@ [volumes |-> <<Entry("data", [labels |-> l])>>]} :
           l \in LabelDicts}

\* --- bind mounts of host paths, beside labels the author wrote
BindMount(path) == [type |-> "bind", source |-> path, target |-> path]
MountPool ==
    {BindMount(path) : path \in {"/var/run/docker.sock", "/run/dbus",
                                  "/var/log/journal", "/run/log/journal",
                                  "/etc/machine-id"}}
    \cup {[type |-> "volume", source |-> "data", target |-> "/data"]}

MountDocuments ==
    {SingleService([image |-> "myapp:latest", volumes |-> v] @@ labels) :
        v \in Arrays(MountPool, MaxMounts),
        labels \in Optional("labels",
                     {<<Entry("com.example.keep", "yes")>>,
                      <<Entry("io.balena.features.dbus", "0"),
                        Entry("com.example.keep", "yes")>>})}

\* --- a service that breaks several rules of normalizeService at once
ViolationPool ==
    << [deploy |-> JSNull],
       [build |-> [context |-> "https://github.com/org/repo.git"]],
       [labels |-> <<Entry("io.balena.private.x", "1")>>],
       [network_mode |-> "container:abc"],
       [pid |-> "container:abc"],
       [security_opt |-> <<"seccomp:unconfined">>],
       [volumes_from |-> <<"container:abc">>],
       [ipc |-> "service:db"],
       [networks |-> <<Entry("default", [link_local_ips |-> <<"169.254.0.5">>])>>],
       [pids_limit |-> -1],
       [depends_on |-> <<Entry("db", [condition |-> "service_healthy"])>>],
       [devices |-> <<[source |-> "vendor.com/device=foo",
                       target |-> "vendor.com/device=foo", permissions |-> "rwm"]>>],
       [volumes |-> <<[type |-> "bind", source |-> "/data", target |-> "/data"]>>] >>

RECURSIVE WithViolations(_, _)
WithViolations(service, S) ==
    IF S = {} THEN service
    ELSE WithViolations(ViolationPool[Min(S)] @@ service, S \ {Min(S)})

ViolationDocuments ==
    {SingleService(WithViolations(
         [image |-> "myapp:latest", network_mode |-> "host", ipc |-> "shareable",
          security_opt |-> <<"no-new-privileges:true">>, pids_limit |-> 0,
          ports |-> <<LongPort([published |-> "8080"])>>], S)) :
        S \in {T \in SUBSET (1..Len(ViolationPool)) : Cardinality(T) <= MaxViolations}}

\* --- volume entries of every type, beside a tmpfs list the service declares
VolumeEntryDocuments ==
    LET named == [source |-> "data", target |-> "/data"]
        entries ==
            {[type |-> "volume"] @@ named,
             [type |-> "volume", read_only |-> TRUE] @@ named,
             [type |-> "volume", read_only |-> FALSE] @@ named,
             [type |-> "volume", volume |-> << >>] @@ named,
             [type |-> "volume", volume |-> [nocopy |-> TRUE]] @@ named,
             [type |-> "volume", target |-> "/cache"],
             [type |-> "volume"],
             [type |-> "tmpfs", target |-> "/run"],
             [type |-> "tmpfs", target |-> "/scratch", tmpfs |-> [size |-> 1024]],
             [type |-> "tmpfs"],
             [type |-> "bind", source |-> "/data", target |-> "/data"],
             [type |-> "image", source |-> "busybox", target |-> "/image"],
             [type |-> "npipe", source |-> "pipe", target |-> "/pipe"],
             [type |-> "cluster", source |-> "csi", target |-> "/csi"],
             [type |-> "volume", source |-> "/sys", target |-> "/sys"]}
    IN  {SingleService([image |-> "myapp:latest", volumes |-> v] @@ tmpfs) :
            v \in Arrays(entries, MaxVolumeEntries),
            tmpfs \in Optional("tmpfs", {<<"/var/tmp">>})}

\* --- one service with security_opt, with devices, or with the fields that
\* --- only warn, beside a network with driver options
FieldDocuments ==
    LET options == {"no-new-privileges", "no-new-privileges:true",
                    "no-new-privileges=false", "seccomp:unconfined",
                    "seccomp=no-new-privileges.json", "label:type:svirt_t"}
        device == [source |-> "/dev/ttyUSB0", target |-> "/dev/ttyUSB0"]
        devices == {device @@ [permissions |-> "rwm"],
                    [source |-> "/dev/sda", target |-> "/dev/xvda",
                     permissions |-> "r"],
                    device,
                    [source |-> "/dev/ttyUSB0", permissions |-> "rwm"],
                    [source |-> "vendor.com/device=foo", target |-> "/dev/foo",
                     permissions |-> "rwm"],
                    [source |-> "/dev/foo", target |-> "vendor.com/device=foo",
                     permissions |-> "rwm"]}
        bridge == Entry("com.docker.network.bridge.name", "br0")
    IN  {SingleService([image |-> "myapp:latest", security_opt |-> o]) :
            o \in Arrays(options, MaxSecurityOpts)}
        \cup {SingleService([image |-> "myapp:latest", devices |-> d]) :
                d \in Arrays(devices, MaxDevices)}
        \cup {SingleService([image |-> "myapp:latest", env_file |-> <<".env">>]
                            @@ expose @@ name @@ oom @@ labels @@ entrypoint @@ ports)
                @@ networks :
                expose \in Optional("expose", {<<"3000">>}),
                name \in Optional("container_name", {"my-app"}),
                oom \in Optional("oom_score_adj", {-1000, -900, -899}),
                labels \in Optional("label_file", {<<"app.labels">>}),
                entrypoint \in Optional("entrypoint", {JSNull, <<"/bin/sh", "-c">>}),
                ports \in Optional("ports",
                            {<<LongPort([published |-> "8080", name |-> "web",
                                         app_protocol |-> "http"])>>}),
                networks \in Optional("networks",
                            {<<Entry("default", [driver_opts |-> <<bridge>>])>>,
                             <<Entry("default",
                                     [driver |-> "bridge",
                                      driver_opts |-> <<bridge,
                                          Entry("com.docker.network.driver.mtu",
                                                "1400")>>])>>})}

\* --- ports
PortPool ==
    {LongPort(ip @@ published) : ip \in Optional("host_ip", {"127.0.0.1"}),
                                  published \in Optional("published", {"8080"})}
    \cup {[target |-> 80] @@ ip @@ published @@ protocol :
            ip \in Optional("host_ip", {"127.0.0.1"}),
            published \in Optional("published", {"8080"}),
            protocol \in Optional("protocol", {"tcp", "udp"})}
    \cup {LongPort([name |-> "web", app_protocol |-> "http"])}

PortDocuments ==
    {SingleService([image |-> "myapp:latest", ports |-> p]) :
        p \in Arrays(PortPool, MaxPorts)}

\* --- depends_on
DependsOnPool ==
    {condition @@ required :
        condition \in Optional("condition", {"service_started", "service_healthy"}),
        required \in Optional("required", {TRUE, FALSE})} \ {<< >>}

DependsOnDocuments ==
    {SingleService([image |-> "myapp:latest", depends_on |-> d]) :
        d \in NonEmptyDicts(DependencyNames, DependsOnPool, MaxDependsOn)}

\* --- one network or one volume, varied in shape
NetworkPool ==
    {name @@ denied @@ driver @@ labels @@ ipam @@ ipv6 :
        name \in Optional("name", {ProjectName \o "_default", ""}),
        denied \in Optional("attachable", {JSFalse}) \cup Optional("external", {JSNull}),
        driver \in Optional("driver", {"bridge", "overlay"}),
        labels \in Optional("labels",
                     {<<Entry("io.balena.private.x", "1")>>,
                      <<Entry("io.balena.features.requires.constructor", "1")>>}),
        ipam \in Optional("ipam",
                     {[config |-> <<[subnet |-> "10.0.0.0/24"]>>],
                      [config |-> <<[subnet |-> "10.0.0.0/24"],
                                    [subnet |-> "10.0.1.0/24",
                                     aux_addresses |-> [host1 |-> "10.0.1.5"]]>>]}),
        ipv6 \in Optional("enable_ipv6", {TRUE, FALSE})}
VolumePool ==
    {name @@ denied @@ driver @@ labels :
        name \in Optional("name", {ProjectName \o "_data", ""}),
        denied \in Optional("external", {JSFalse, JSNull}),
        driver \in Optional("driver", {"local", "nfs"}),
        labels \in Optional("labels", {<<Entry("io.balena.private.x", "1")>>})}

EntityDocuments ==
    {SingleService([image |-> "myapp:latest"]) @@ [networks |-> <<Entry("default", n)>>] :
        n \in NetworkPool}
    \cup {SingleService([image |-> "myapp:latest"]) @@ [volumes |-> <<Entry("data", v)>>] :
            v \in VolumePool}

\* --- top-level keys
TopLevelDocuments ==
    {name @@ secrets @@ configs @@ [services |-> <<Entry("app", [image |-> "myapp:latest"])>>] :
        name \in Optional("name", {ProjectName}),
        secrets \in Optional("secrets", {JSEmptyObject, JSNull}),
        configs \in Optional("configs", {JSEmptyObject, JSNull})}

\* where the process runs and the path parse() was given
Environments ==
    {[cwd |-> "/proj", composeFilePath |-> "docker-compose.yml"],
     [cwd |-> "/home/user", composeFilePath |-> "/proj/docker-compose.yml"]}
DefaultEnvironment == [cwd |-> "/proj", composeFilePath |-> "docker-compose.yml"]

\* --- what the binary writes
StdoutPool ==
    {"",
     "{\"services\":{\"app\":{\"image\":\"myapp:latest\"}}}",
     "{\"services\":{\"app\":{\"build\":{\"context\":\"/proj/app\"}}}}",
     "{\"services\":{\"app\":{\"image\":\"myapp:latest\",\"deploy\":{}}}}"}
StderrLinePool ==
    {"", "  ", "panic: runtime error", "null",
     "{\"level\":\"warning\",\"message\":\"version is obsolete\"}",
     "{\"level\":\"warn\",\"message\":\"unset variable\"}",
     "{\"level\":\"info\",\"message\":\"loading\"}",
     "{\"level\":\"debug\",\"message\":\"resolved\"}",
     "{\"level\":\"error\",\"message\":\"invalid interpolation\"}",
     "{\"level\":\"fatal\",\"message\":\"cannot load project\"}",
     "{\"level\":\"panic\",\"message\":\"nil map\"}",
     "{\"error\":true,\"name\":\"ParseError\",\"message\":\"yaml: line 3\"}",
     "{\"level\":\"error\"}"}

\* --- compositions built by hand and given to toImageDescriptors
HandBuiltServices ==
    {image @@ build @@ labels :
        image \in Optional("image", {"myapp:latest"}),
        build \in Optional("build", {[context |-> "./app"]}),
        labels \in Optional("labels", LabelDicts)}
HandBuiltPool ==
    {[image |-> "myapp:latest"],
     [build |-> [context |-> "./app"]],
     [image |-> "myapp:latest",
      labels |-> <<Entry(Requires("sw.supervisor"), ">=16.0.0"),
                   Entry("io.balena.other.label", "value")>>],
     [image |-> "redis:7", labels |-> <<Entry("io.balena.features.dbus", "1")>>]}
HandBuiltCompositions ==
    {[services |-> <<Entry("app", s)>>] : s \in HandBuiltServices}
    \cup {[services |-> s] : s \in Dicts(ServiceNames, HandBuiltPool, MaxServices)}

----------------------------------------------------------------------------
(* The state machine: a caller of normalize and toImageDescriptors *)

InitNormalize ==
    /\ pc = "call"
    /\ pass = 1
    /\ \/ /\ rawComposition \in {SingleService(s) : s \in ShapeServices}
          /\ \E e \in Environments :
                cwd = e.cwd /\ composeFilePath = e.composeFilePath
       \/ /\ rawComposition \in OrderDocuments \cup LabelDocuments
                \cup PortDocuments \cup DependsOnDocuments \cup EntityDocuments
                \cup TopLevelDocuments \cup MountDocuments \cup ViolationDocuments
                \cup VolumeEntryDocuments \cup FieldDocuments
          /\ cwd = DefaultEnvironment.cwd
          /\ composeFilePath = DefaultEnvironment.composeFilePath
    /\ composition = JSUndefined
    /\ filePaths = <<composeFilePath>>

InitHandBuilt ==
    /\ pc = "built"
    /\ pass = 0
    /\ composition \in HandBuiltCompositions
    /\ rawComposition = JSUndefined
    /\ cwd = DefaultEnvironment.cwd
    /\ composeFilePath = DefaultEnvironment.composeFilePath
    /\ filePaths = <<composeFilePath>>

\* a caller of parse: composeFilePath "" stands for no call of normalize yet
InitParse ==
    /\ pc = "parse"
    /\ pass = 0
    /\ filePaths \in {<< >>, <<"docker-compose.yml">>,
                      <<"/proj/sub/docker-compose.yml", "/proj/override.yml">>}
    /\ rawComposition = JSUndefined
    /\ composition = JSUndefined
    /\ cwd = DefaultEnvironment.cwd
    /\ composeFilePath = ""

Init ==
    /\ InitNormalize \/ InitHandBuilt \/ InitParse
    /\ result = JSUndefined
    /\ warnings = 0
    /\ original = rawComposition
    /\ thrown = NoError
    /\ calls = << >>
    /\ previous = JSUndefined
    /\ descriptors = JSUndefined

\* Reject with the composition built so far left with the caller
RejectKeepingPartial(error) ==
    /\ thrown' = error
    /\ pc' = "rejected"
    /\ UNCHANGED composition

\* a throw unwinds normalize: the caller gets the error and no composition
Reject(error) ==
    /\ thrown' = error
    /\ composition' = JSUndefined
    /\ pc' = "rejected"

RawEntries(kind) ==
    IF Has(rawComposition, kind) THEN ObjectEntries(rawComposition[kind]) ELSE << >>

\* the entry of rawComposition[kind] with key k replaced by value v
ReplaceRaw(kind, k, v) ==
    Assign(rawComposition, kind,
        [i \in 1..Len(rawComposition[kind]) |->
            IF rawComposition[kind][i].key = k THEN Entry(k, v)
            ELSE rawComposition[kind][i]])

\* the body of one of the three loops of normalize, for the entity `name` of
\* kind "service", "network" or "volume" whose normalizer gave r:
\* `composition[kind + "s"][name] = r`, or the throw
Outcome(kind, name, r) ==
    /\ calls' = Append(calls, [kind |-> kind, name |-> name])
    /\ rawComposition' = IF Has(r, "rawAfter")
                         THEN ReplaceRaw(kind \o "s", name, r.rawAfter)
                         ELSE rawComposition
    /\ IF r.ok
       THEN /\ composition' =
                  Assign(composition, kind \o "s",
                         Append(composition[kind \o "s"], Entry(name, r.value)))
            /\ UNCHANGED <<pc, thrown>>
       ELSE Reject(r.error)

\* parse, up to the end of the exec of the binary: the binary writes some
\* stdout and stderr, whether it exits with 0 or not, or cannot be run
ParseBegin ==
    /\ pc = "parse"
    /\ IF Len(filePaths) = 0
       THEN /\ thrown' = ArgumentError(
                             "At least one compose file path must be provided")
            /\ pc' = "thrown"
            /\ UNCHANGED result
       ELSE \/ /\ \E out \in StdoutPool,
                     err \in {<< >>} \cup Arrays(StderrLinePool, MaxStderrLines) :
                      result' = [stdout |-> out, stderr |-> err]
               /\ pc' = "output"
               /\ UNCHANGED thrown
            \/ /\ result' = [code |-> "ENOENT"]
               /\ thrown' = [name |-> "Error", message |-> "spawn /bin/sh ENOENT"]
               /\ pc' = "thrown"
    /\ UNCHANGED <<rawComposition, original, composeFilePath, cwd, composition,
                   calls, pass, previous, descriptors, filePaths, warnings>>

\* parse, from the reading of stderr to the call of normalize
ParseOutput ==
    /\ pc = "output"
    /\ warnings' = warnings + toComposeError(result.stderr).warnings
    /\ IF SelectSeq(toComposeError(result.stderr).errors,
                    LAMBDA e : e.level \in {"error", "fatal", "panic"}) # << >>
       THEN /\ thrown' = Head(SelectSeq(toComposeError(result.stderr).errors,
                                 LAMBDA e : e.level \in {"error", "fatal", "panic"}))
            /\ pc' = "thrown"
            /\ UNCHANGED <<rawComposition, original, composeFilePath, pass>>
       ELSE IF ~JSONParse(result.stdout).ok
       THEN /\ thrown' = JSONParse(result.stdout).error
            /\ pc' = "thrown"
            /\ UNCHANGED <<rawComposition, original, composeFilePath, pass>>
       ELSE /\ rawComposition' = JSONParse(result.stdout).value
            /\ original' = JSONParse(result.stdout).value
            /\ composeFilePath' = filePaths[1]
            /\ pass' = 1
            /\ pc' = "call"
            /\ UNCHANGED thrown
    /\ UNCHANGED <<cwd, composition, calls, previous, descriptors, filePaths,
                   result>>

\* normalize, up to its first loop
NormalizeBegin ==
    /\ pc = "call"
    /\ rawComposition' = removeProjectName(rawComposition)
    /\ IF \/ Has(rawComposition, "secrets") /\ JSTruthy(rawComposition.secrets)
          \/ Has(rawComposition, "configs") /\ JSTruthy(rawComposition.configs)
       THEN Reject(ValidationError(
                "Top-level secrets and/or configs are not supported"))
       ELSE /\ composition' = [services |-> << >>]
            /\ pc' = "services"
            /\ UNCHANGED thrown
    /\ UNCHANGED <<original, composeFilePath, cwd, calls, pass, previous,
                   descriptors>>
    /\ UNCHANGED <<filePaths, result, warnings>>

\* one iteration of the loop over rawComposition.services
NormalizeService ==
    /\ pc = "services"
    /\ Len(composition.services) < Len(RawEntries("services"))
    /\ Outcome("service", RawEntries("services")[Len(composition.services) + 1].key,
               normalizeService(
                   RawEntries("services")[Len(composition.services) + 1].value,
                   composeFilePath, cwd,
                   RawEntries("services")[Len(composition.services) + 1].key))
    /\ UNCHANGED <<original, composeFilePath, cwd, pass, previous, descriptors>>
    /\ UNCHANGED <<filePaths, result, warnings>>

\* the services are done: `if (rawComposition.networks) composition.networks = {}`
EnterNetworks ==
    /\ pc = "services"
    /\ Len(composition.services) = Len(RawEntries("services"))
    /\ composition' = IF Has(rawComposition, "networks")
                      THEN Assign(composition, "networks", << >>)
                      ELSE composition
    /\ pc' = "networks"
    /\ UNCHANGED <<rawComposition, original, composeFilePath, cwd, thrown, calls,
                   pass, previous, descriptors>>
    /\ UNCHANGED <<filePaths, result, warnings>>

\* one iteration of the loop over rawComposition.networks
NormalizeNetwork ==
    /\ pc = "networks"
    /\ Has(composition, "networks")
    /\ Len(composition.networks) < Len(RawEntries("networks"))
    /\ Outcome("network", RawEntries("networks")[Len(composition.networks) + 1].key,
               normalizeNetwork(
                   RawEntries("networks")[Len(composition.networks) + 1].value))
    /\ UNCHANGED <<original, composeFilePath, cwd, pass, previous, descriptors>>
    /\ UNCHANGED <<filePaths, result, warnings>>

\* the networks are done: `if (rawComposition.volumes) composition.volumes = {}`
EnterVolumes ==
    /\ pc = "networks"
    /\ Has(composition, "networks") =>
           Len(composition.networks) = Len(RawEntries("networks"))
    /\ composition' = IF Has(rawComposition, "volumes")
                      THEN Assign(composition, "volumes", << >>)
                      ELSE composition
    /\ pc' = "volumes"
    /\ UNCHANGED <<rawComposition, original, composeFilePath, cwd, thrown, calls,
                   pass, previous, descriptors>>
    /\ UNCHANGED <<filePaths, result, warnings>>

\* one iteration of the loop over rawComposition.volumes
NormalizeVolume ==
    /\ pc = "volumes"
    /\ Has(composition, "volumes")
    /\ Len(composition.volumes) < Len(RawEntries("volumes"))
    /\ Outcome("volume", RawEntries("volumes")[Len(composition.volumes) + 1].key,
               normalizeVolume(
                   RawEntries("volumes")[Len(composition.volumes) + 1].value))
    /\ UNCHANGED <<original, composeFilePath, cwd, pass, previous, descriptors>>
    /\ UNCHANGED <<filePaths, result, warnings>>

\* `return composition`
NormalizeReturn ==
    /\ pc = "volumes"
    /\ Has(composition, "volumes") =>
           Len(composition.volumes) = Len(RawEntries("volumes"))
    /\ pc' = "returned"
    /\ UNCHANGED <<rawComposition, original, composeFilePath, cwd, composition,
                   thrown, calls, pass, previous, descriptors>>
    /\ UNCHANGED <<filePaths, result, warnings>>

\* the caller feeds the returned composition through normalize again
Renormalize ==
    /\ pc = "returned"
    /\ pass = 1
    /\ previous' = composition
    /\ rawComposition' = composition
    /\ original' = composition
    /\ pass' = 2
    /\ calls' = << >>
    /\ pc' = "call"
    /\ UNCHANGED <<composeFilePath, cwd, composition, thrown, descriptors>>
    /\ UNCHANGED <<filePaths, result, warnings>>

Described(r) ==
    IF r.ok
    THEN /\ descriptors' = r.value
         /\ pc' = "described"
         /\ UNCHANGED thrown
    ELSE /\ thrown' = r.error
         /\ pc' = "raised"
         /\ UNCHANGED descriptors

\* the caller projects a composition, returned by normalize or built by hand
ToImageDescriptors ==
    /\ pc \in {"returned", "built"}
    /\ Described(toImageDescriptors(composition))
    /\ UNCHANGED <<rawComposition, original, composeFilePath, cwd, composition,
                   calls, pass, previous>>
    /\ UNCHANGED <<filePaths, result, warnings>>

Next ==
    \/ ParseBegin
    \/ ParseOutput
    \/ NormalizeBegin
    \/ NormalizeService
    \/ EnterNetworks
    \/ NormalizeNetwork
    \/ EnterVolumes
    \/ NormalizeVolume
    \/ NormalizeReturn
    \/ Renormalize
    \/ ToImageDescriptors

Spec == Init /\ [][Next]_vars

----------------------------------------------------------------------------
(* What the properties read off a state *)

\* the entities of one kind of a document, in the order of its map
EntitiesOf(doc, kind) ==
    IF Has(doc, kind \o "s")
    THEN [i \in 1..Len(doc[kind \o "s"]) |->
             [kind |-> kind, name |-> doc[kind \o "s"][i].key,
              value |-> doc[kind \o "s"][i].value]]
    ELSE << >>

\* services, then networks, then volumes
EntityList(doc) ==
    EntitiesOf(doc, "service") \o EntitiesOf(doc, "network")
        \o EntitiesOf(doc, "volume")

\* the entities of the document normalize was called with, project name removed
Visited == EntityList(removeProjectName(original))

\* what the normalizer of its kind makes of one entity
Result(e) ==
    CASE e.kind = "service" -> normalizeService(e.value, composeFilePath, cwd, e.name)
      [] e.kind = "network" -> normalizeNetwork(e.value)
      [] e.kind = "volume" -> normalizeVolume(e.value)

\* normalize or toImageDescriptors has ended, by a return or by a throw
Ended == pc \in {"returned", "rejected", "described", "raised"}
Projected == pc \in {"described", "raised"}

----------------------------------------------------------------------------
(* C1 *)

\* C1. Idempotence of normalize: feeding the composition a successful
\* normalize returned through normalize again, with the same primary file
\* path, does not raise and returns a composition equal to the first one.
C1_Idempotence ==
    pass = 2 =>
        /\ pc # "rejected"
        /\ pc = "returned" => composition = previous

----------------------------------------------------------------------------
(* C2, C3, C4 *)

RecognizedRequirement(key) ==
    \E t \in SupportedContractTypes : key = Requires(t)

\* the recognized requirement labels of a service, in label-map order
RecognizedLabels(service) ==
    IF Has(service, "labels")
    THEN SelectSeq(service.labels, LAMBDA l : RecognizedRequirement(l.key))
    ELSE << >>

\* C2. toImageDescriptors returns one descriptor per service, in the
\* service order of the composition, each named after its service; the
\* descriptor of a service with no recognized requirement label has no
\* contract field.
C2_OneDescriptorPerService ==
    Projected =>
        /\ pc = "described"
        /\ Len(descriptors) = Len(composition.services)
        /\ \A i \in 1..Len(composition.services) :
              /\ descriptors[i].serviceName = composition.services[i].key
              /\ RecognizedLabels(composition.services[i].value) = << >>
                    => ~Has(descriptors[i], "contract")

\* the requirement the rule table gives for one recognized label
ClaimedRequirement(l) ==
    IF RemovePrefix(l.key, contractRequirementLabelPrefix) \in {"sw.supervisor", "sw.l4t"}
    THEN [type |-> RemovePrefix(l.key, contractRequirementLabelPrefix),
          version |-> l.value]
    ELSE [type |-> RemovePrefix(l.key, contractRequirementLabelPrefix),
          slug |-> l.value]

ClaimedContract(serviceName, recognized) ==
    [type |-> "sw.container", slug |-> "contract-for-" \o serviceName,
     requires |-> [j \in 1..Len(recognized) |-> ClaimedRequirement(recognized[j])]]

\* C3. The descriptor of a service with at least one recognized requirement
\* label carries a contract of type sw.container, slug contract-for-<name>,
\* whose requires list holds one entry per recognized label, in label order
\* ({type, version} for sw.supervisor and sw.l4t, {type, slug} for
\* hw.device-type and arch.sw); other labels contribute nothing.
C3_ContractFromLabels ==
    Projected =>
        \A i \in 1..Len(composition.services) :
            RecognizedLabels(composition.services[i].value) # << >> =>
                /\ pc = "described"
                /\ Has(descriptors[i], "contract")
                /\ descriptors[i].contract =
                       ClaimedContract(composition.services[i].key,
                           RecognizedLabels(composition.services[i].value))

\* the image the descriptor of a service is said to carry
ClaimedImage(service) ==
    IF StringOf(service, "image") # "" /\ ~Has(service, "build")
    THEN JSString(service.image)
    ELSE IF Has(service, "build") THEN service.build ELSE JSUndefined

\* C4. For a composition a successful normalize returned, toImageDescriptors
\* does not raise, and the image of every descriptor is the image string of
\* the service when it has an image and no build config, its build config
\* otherwise; it is never absent.
C4_ImageNeverAbsent ==
    pass >= 1 /\ Projected =>
        /\ pc = "described"
        /\ \A i \in 1..Len(composition.services) :
              /\ descriptors[i].image # JSUndefined
              /\ descriptors[i].image = ClaimedImage(composition.services[i].value)

----------------------------------------------------------------------------
(* C5 *)

\* a recognized requirement label whose value its rule does not accept
BadRequirement(l) ==
    \/ /\ l.key \in {Requires("sw.supervisor"), Requires("sw.l4t")}
       /\ ~validRange(l.value)
    \/ /\ l.key = Requires("arch.sw")
       /\ l.value \notin SupportedArchitectures

LabelsOf(o) == IF Has(o, "labels") THEN o.labels ELSE << >>

\* the label maps of an entity: its own, and for a service its build config's
LabelMaps(e) ==
    {LabelsOf(e.value)}
    \cup (IF e.kind = "service" /\ Has(e.value, "build")
          THEN {LabelsOf(e.value.build)} ELSE {})

HasBadRequirement(doc) ==
    \E i \in 1..Len(EntityList(doc)) :
        \E labels \in LabelMaps(EntityList(doc)[i]) :
            \E j \in 1..Len(labels) : BadRequirement(labels[j])

\* C5. A document with a recognized requirement label of unacceptable value
\* (under a service, a build config, a network or a volume) makes normalize
\* reject with a ServiceError or a ValidationError, and no composition is
\* returned.
C5_BadRequirementRejected ==
    pass = 1 /\ Ended /\ HasBadRequirement(original) =>
        /\ pc = "rejected"
        /\ composition = JSUndefined
        /\ thrown.name \in {"ServiceError", "ValidationError"}

----------------------------------------------------------------------------
(* C6 *)

\* [host_ip:][published:]target[/protocol], the suffix left out for tcp and
\* for no protocol
ClaimedPortString(port) ==
    (IF StringOf(port, "host_ip") # "" THEN port.host_ip \o ":" ELSE "")
    \o (IF StringOf(port, "published") # "" THEN port.published \o ":" ELSE "")
    \o ToString(port.target)
    \o (IF StringOf(port, "protocol") \notin {"", "tcp"}
        THEN "/" \o port.protocol ELSE "")

ClaimedPorts(ports) ==
    [j \in 1..Len(ports) |->
        IF IsJSString(ports[j]) THEN ports[j]
        ELSE JSString(ClaimedPortString(ports[j]))]

\* C6. The ports of a normalized service are one string per input port, in
\* input order, each [host_ip:][published:]target[/protocol]: host_ip and
\* published left out when absent, the suffix left out for protocol tcp, a
\* port with only a target giving the bare target.
C6_PortDowngrade ==
    pass = 1 /\ pc = "returned" =>
        \A i \in 1..Len(composition.services) :
            Has(original.services[i].value, "ports") =>
                /\ Has(composition.services[i].value, "ports")
                /\ composition.services[i].value.ports =
                       ClaimedPorts(original.services[i].value.ports)

----------------------------------------------------------------------------
(* C7 *)

\* a long-syntax depends_on whose entries all state condition and required
FullyStated(service) ==
    /\ Has(service, "depends_on")
    /\ IsDict(service.depends_on)
    /\ \A j \in 1..Len(service.depends_on) :
          /\ Has(service.depends_on[j].value, "condition")
          /\ Has(service.depends_on[j].value, "required")

OtherCondition(dependsOn) ==
    \E j \in 1..Len(dependsOn) : dependsOn[j].value.condition # "service_started"

\* the names of the required dependencies, in input order
RequiredNames(dependsOn) ==
    Flatten([j \in 1..Len(dependsOn) |->
                IF dependsOn[j].value.required
                THEN <<JSString(dependsOn[j].key)>> ELSE << >>])

\* C7. Of a long-syntax depends_on: an entry with a condition other than
\* service_started makes the service normalizer raise a ServiceError;
\* otherwise the normalizer does not raise over depends_on, the entries with
\* required false are left out, and those with required true are emitted as
\* their dependency names, in input order.
C7_DependsOnDowngrade ==
    pass = 1 =>
        \A i \in 1..Len(calls) :
            Visited[i].kind = "service" /\ FullyStated(Visited[i].value) =>
                IF OtherCondition(Visited[i].value.depends_on)
                THEN /\ i = Len(calls)
                     /\ pc = "rejected"
                     /\ thrown.name = "ServiceError"
                ELSE /\ ~(/\ i = Len(calls)
                          /\ pc = "rejected"
                          /\ StartsWith(thrown.message, "Long syntax depends_on"))
                     /\ pc # "rejected" =>
                           composition.services[i].value.depends_on =
                               RequiredNames(Visited[i].value.depends_on)

----------------------------------------------------------------------------
(* C8 *)

\* C8. normalize calls the entity normalizers on the services, then the
\* networks, then the volumes, each kind in the order of the input map. The
\* first entity whose normalizer rejects ends the run: its rejection is the
\* error raised, no later entity is processed and no composition is
\* returned; a run that returns has processed every entity.
C8_FixedOrderFirstRejection ==
    pass >= 1 =>
        /\ Len(calls) <= Len(Visited)
        /\ \A i \in 1..Len(calls) :
              /\ calls[i] = [kind |-> Visited[i].kind, name |-> Visited[i].name]
              /\ Result(Visited[i]).ok <=> ~(i = Len(calls) /\ pc = "rejected")
        /\ pc = "rejected" /\ calls # << >> =>
              thrown = Result(Visited[Len(calls)]).error
        /\ pc = "rejected" => composition = JSUndefined
        /\ pc \in {"returned", "described", "raised"} => Len(calls) = Len(Visited)

\* a network rejected after both services passed, a volume left unvisited
C8_Witness ==
    /\ pc = "rejected"
    /\ Len(calls) = 3
    /\ calls[3].kind = "network"
    /\ Len(Visited) > 3
    /\ thrown.name = "ValidationError"

----------------------------------------------------------------------------
(* C9 *)

DeniedIn(denyList, o) ==
    {denyList[i] : i \in {j \in 1..Len(denyList) : Has(o, denyList[j])}}

NotAllowed(prefix, fields) == {prefix \o f \o " is not allowed" : f \in fields}

\* the messages that name a deny-listed field of the entity: of a service
\* its own fields, or else those of its build config
DenyMessages(e) ==
    CASE e.kind = "service" ->
            IF DeniedIn(SERVICE_CONFIG_DENY_LIST, e.value) # {}
            THEN NotAllowed("service.", DeniedIn(SERVICE_CONFIG_DENY_LIST, e.value))
            ELSE IF Has(e.value, "build")
            THEN NotAllowed("service.build.",
                            DeniedIn(BUILD_CONFIG_DENY_LIST, e.value.build))
            ELSE {}
      [] e.kind = "network" ->
            NotAllowed("network.", DeniedIn(NETWORK_CONFIG_DENY_LIST, e.value))
      [] e.kind = "volume" ->
            NotAllowed("volume.", DeniedIn(VOLUME_CONFIG_DENY_LIST, e.value))

DenyErrors(e) ==
    IF e.kind = "service"
    THEN {ServiceError(m, e.name) : m \in DenyMessages(e)}
    ELSE {ValidationError(m) : m \in DenyMessages(e)}

\* C9 as stated. An entity that holds a key of the deny-list of its kind,
\* whatever the value, is rejected by its normalizer with a message naming
\* the field: a ServiceError carrying the service name for a service or a
\* build config, a ValidationError for a network or a volume.
C9_DenyListNamesField ==
    \A i \in 1..Len(calls) :
        DenyMessages(Visited[i]) # {} =>
            /\ i = Len(calls)
            /\ pc = "rejected"
            /\ thrown \in DenyErrors(Visited[i])

\* a volume whose driver normalizeVolume rejects before it reads the deny-list
DriverRejected(e) ==
    e.kind = "volume" /\ StringOf(e.value, "driver") \notin {"", "local", "default"}

\* C9 as amended. An entity that holds a key of the deny-list of its kind,
\* whatever the value, is rejected by its normalizer: with a message naming
\* the field (ServiceError with the service name for a service or build
\* config, ValidationError for a network or volume), except that a volume
\* whose driver is neither local nor default is rejected with the
\* ValidationError of the driver check.
C9_DenyListPolicy ==
    \A i \in 1..Len(calls) :
        DenyMessages(Visited[i]) # {} =>
            /\ i = Len(calls)
            /\ pc = "rejected"
            /\ IF DriverRejected(Visited[i])
               THEN thrown = ValidationError(
                        "Only \"local\" and \"default\" are supported for volume.driver, got \""
                        \o Visited[i].value.driver \o "\"")
               ELSE thrown \in DenyErrors(Visited[i])

\* a volume with an accepted driver and `external: null` has been rejected
C9_Witness ==
    /\ pc = "rejected"
    /\ calls # << >>
    /\ Visited[Len(calls)].kind = "volume"
    /\ StringOf(Visited[Len(calls)].value, "driver") = "local"
    /\ Has(Visited[Len(calls)].value, "external")
    /\ Visited[Len(calls)].value.external = JSNull
    /\ thrown = ValidationError("volume.external is not allowed")

----------------------------------------------------------------------------
(* C10 *)

\* C10 as stated. No build config of a composition normalize returned
\* holds a field of the build deny-list.
C10_NoDeniedBuildField ==
    pc = "returned" =>
        \A i \in 1..Len(composition.services) :
            Has(composition.services[i].value, "build") =>
                DeniedIn(BUILD_CONFIG_DENY_LIST,
                         composition.services[i].value.build) = {}

\* the build config holds no deny-listed field but the tags normalizeService
\* sets: tags is there exactly when the service has an image, and is [image]
TagsOnly(service) ==
    /\ DeniedIn(BUILD_CONFIG_DENY_LIST, service.build) \subseteq {"tags"}
    /\ Has(service.build, "tags") <=> StringOf(service, "image") # ""
    /\ Has(service.build, "tags") => service.build.tags = <<service.image>>

\* C10 as amended. No build config of a composition normalize returned
\* holds a field of the build deny-list other than tags; tags is present
\* exactly when the service sets both image and build, and is then the list
\* holding the image of the service alone.
C10_NoDeniedBuildFieldButTags ==
    pc = "returned" =>
        \A i \in 1..Len(composition.services) :
            Has(composition.services[i].value, "build") =>
                TagsOnly(composition.services[i].value)

\* a service with an image and a build config has been normalized
C10_Witness ==
    /\ pc = "returned"
    /\ pass = 1
    /\ \E i \in 1..Len(composition.services) :
          /\ Has(composition.services[i].value, "build")
          /\ Has(composition.services[i].value.build, "tags")
          /\ composition.services[i].value.build.tags = <<"myapp:latest">>

----------------------------------------------------------------------------
(* C11 *)

\* C11. The normalizers work on copies: once normalize has returned or
\* raised, the raw document it was given, and every service, build config,
\* port entry, network and volume reachable from it, is as it was before
\* the call.
C11_InputsUnmodified ==
    pass = 1 /\ pc \in {"returned", "rejected"} => rawComposition = original

----------------------------------------------------------------------------
(* C14 *)

\* C14. A raw document with a top-level secrets key or a top-level configs
\* key makes normalize reject with a ValidationError before any service is
\* normalized; a composition normalize returns has no top-level secrets,
\* configs or name key.
C14_TopLevelSecretsConfigs ==
    pass = 1 /\ pc \in {"returned", "rejected"} =>
        /\ Has(original, "secrets") \/ Has(original, "configs") =>
              /\ pc = "rejected"
              /\ thrown.name = "ValidationError"
              /\ calls = << >>
        /\ pc = "returned" =>
              DOMAIN composition \cap {"secrets", "configs", "name"} = {}

----------------------------------------------------------------------------
(* C19 *)

\* C19. A ServiceError raised while service S is normalized carries the
\* serviceName S, the service that declares the offending construct, also
\* when the construct is a depends_on entry that names another service.
C19_ServiceErrorNamesService ==
    pc = "rejected" /\ thrown.name = "ServiceError" /\ calls # << >> =>
        thrown.serviceName = calls[Len(calls)].name

----------------------------------------------------------------------------
(* C12 *)

PrivateLabel(l) == StartsWith(l.key, "io.balena.private")

HasPrivateLabel(e) ==
    \E labels \in LabelMaps(e) : \E j \in 1..Len(labels) : PrivateLabel(labels[j])

WithoutPrivateLabels(o) ==
    IF Has(o, "labels")
    THEN Assign(o, "labels", SelectSeq(o.labels, LAMBDA l : ~PrivateLabel(l)))
    ELSE o

\* the entity with its io.balena.private labels taken out
WithoutPrivate(e) ==
    [kind |-> e.kind, name |-> e.name,
     value |-> IF e.kind = "service" /\ Has(e.value, "build")
               THEN Assign(WithoutPrivateLabels(e.value), "build",
                           WithoutPrivateLabels(e.value.build))
               ELSE WithoutPrivateLabels(e.value)]

\* the rejection of the forbidden namespace, scoped as the entity is
NamespaceRejection(e) ==
    IF e.kind = "service"
    THEN ServiceError("labels cannot use the \"io.balena.private\" namespace", e.name)
    ELSE ValidationError("labels cannot use the \"io.balena.private\" namespace")

\* C12. A label whose name begins with io.balena.private, whatever its
\* value, makes normalize reject at the entity that carries it; the
\* namespace rejection is a ServiceError with the service name for a label
\* of a service or of its build config and a ValidationError for a label of
\* a network or volume, and it is the rejection raised whenever the entity
\* is acceptable but for such labels. No composition normalize returns
\* holds a label beginning with io.balena.private.
C12_ForbiddenNamespace ==
    pass = 1 =>
        /\ \A i \in 1..Len(calls) :
              HasPrivateLabel(Visited[i]) =>
                  /\ i = Len(calls)
                  /\ pc = "rejected"
                  /\ Result(WithoutPrivate(Visited[i])).ok =>
                         thrown = NamespaceRejection(Visited[i])
        /\ /\ pc = "rejected"
           /\ calls # << >>
           /\ thrown.message = "labels cannot use the \"io.balena.private\" namespace"
           => thrown = NamespaceRejection(Visited[Len(calls)])
        /\ pc = "returned" =>
              \A i \in 1..Len(EntityList(composition)) :
                  ~HasPrivateLabel(EntityList(composition)[i])

\* a private label on the build config of service app has been rejected
C12_Witness ==
    /\ pc = "rejected"
    /\ Len(calls) = 1
    /\ Visited[1].kind = "service"
    /\ Has(Visited[1].value, "build")
    /\ \E j \in 1..Len(LabelsOf(Visited[1].value.build)) :
          PrivateLabel(LabelsOf(Visited[1].value.build)[j])
    /\ thrown = ServiceError("labels cannot use the \"io.balena.private\" namespace",
                             "app")

----------------------------------------------------------------------------
(* C13 *)

\* a git or http build context rather than a directory
IsRemoteContext(c) == StartsWith(c, "https://") \/ EndsWith(c, ".git")

ContextOf(service) ==
    IF Has(service, "build") THEN StringOf(service.build, "context") ELSE ""

\* C13. A remote build context is rejected with a ServiceError; in a
\* composition normalize returns, the context of every build config is a
\* relative path, never absolute and never remote, and it is "." when the
\* context given is the directory of the primary compose file.
C13_BuildContext ==
    pass = 1 =>
        /\ \A i \in 1..Len(calls) :
              Visited[i].kind = "service"
                /\ IsRemoteContext(ContextOf(Visited[i].value)) =>
                  /\ i = Len(calls)
                  /\ pc = "rejected"
                  /\ thrown.name = "ServiceError"
        /\ pc = "returned" =>
              \A i \in 1..Len(composition.services) :
                  ContextOf(original.services[i].value) # "" =>
                      /\ ~StartsWith(ContextOf(composition.services[i].value), "/")
                      /\ ~IsRemoteContext(ContextOf(composition.services[i].value))
                      /\ PathResolve(ContextOf(original.services[i].value), cwd)
                             = PathResolve(PathDirname(composeFilePath), cwd)
                         => ContextOf(composition.services[i].value) = "."

----------------------------------------------------------------------------
(* C15 *)

\* the rejections the rules of a network call for, one per rule it breaks
NetworkRejections(n) ==
    {ValidationError("network." \o f \o " is not allowed") :
        f \in DOMAIN n \cap {"attachable", "external"}}
    \cup (IF StringOf(n, "driver") \notin {"", "bridge", "default"}
          THEN {ValidationError(
                   "Only \"bridge\" and \"default\" are supported for network.driver, got \""
                   \o n.driver \o "\"")}
          ELSE {})
    \cup (IF Has(n, "ipam")
               /\ \E i \in 1..Len(n.ipam.config) : Has(n.ipam.config[i], "aux_addresses")
          THEN {ValidationError("network.ipam.config.aux_addresses is not supported")}
          ELSE {})
    \cup (IF Has(n, "enable_ipv6") /\ n.enable_ipv6
          THEN {ValidationError("enable_ipv6 is not supported")}
          ELSE {})

\* the rejections the rules of a volume call for
VolumeRejections(v) ==
    {ValidationError("volume." \o f \o " is not allowed") :
        f \in DOMAIN v \cap {"external"}}
    \cup (IF StringOf(v, "driver") \notin {"", "local", "default"}
          THEN {ValidationError(
                   "Only \"local\" and \"default\" are supported for volume.driver, got \""
                   \o v.driver \o "\"")}
          ELSE {})

Rejections(e) ==
    CASE e.kind = "network" -> NetworkRejections(e.value)
      [] e.kind = "volume" -> VolumeRejections(e.value)
      [] OTHER -> {}

\* the entity with nothing but its labels
OnlyLabels(e) ==
    [kind |-> e.kind, name |-> e.name,
     value |-> [k \in DOMAIN e.value \cap {"labels"} |-> e.value[k]]]

----------------------------------------------------------------------------
(* C16, C20 *)

\* the feature label an allow-listed bind mount source stands for
FeatureLabelOf(path) ==
    CASE path \in {"/var/run/docker.sock", "/var/run/balena-engine.sock"}
            -> "io.balena.features.balena-socket"
      [] path = "/run/dbus" -> "io.balena.features.dbus"
      [] path = "/sys" -> "io.balena.features.sysfs"
      [] path = "/proc" -> "io.balena.features.procfs"
      [] path = "/lib/modules" -> "io.balena.features.kernel-modules"
      [] path = "/lib/firmware" -> "io.balena.features.firmware"
      [] path \in {"/var/log/journal", "/run/log/journal", "/etc/machine-id"}
            -> "io.balena.features.journal-logs"
      [] OTHER -> ""

VolumesOf(service) == IF Has(service, "volumes") THEN service.volumes ELSE << >>

\* C16. Every label the author wrote on a service is in the labels of the
\* normalized service with the value the author gave it, the feature
\* labels that normalization derives from the bind mounts of the service
\* included.
C16_AuthorLabelsPreserved ==
    pass = 1 /\ pc = "returned" =>
        \A i \in 1..Len(composition.services) :
            \A j \in 1..Len(LabelsOf(original.services[i].value)) :
                \E k \in 1..Len(LabelsOf(composition.services[i].value)) :
                    LabelsOf(composition.services[i].value)[k]
                        = LabelsOf(original.services[i].value)[j]

\* C20. Every volume entry of a service whose source is an allow-listed
\* path is left out of the volumes of the normalized service, and the
\* feature label of that path is on the normalized service with the value
\* "1".
C20_BindMountsBecomeLabels ==
    pass = 1 /\ pc = "returned" =>
        \A i \in 1..Len(composition.services) :
            \A j \in 1..Len(VolumesOf(original.services[i].value)) :
                LET source == StringOf(VolumesOf(original.services[i].value)[j], "source")
                IN  FeatureLabelOf(source) # "" =>
                        /\ \A k \in 1..Len(VolumesOf(composition.services[i].value)) :
                              ~StartsWith(
                                  VolumesOf(composition.services[i].value)[k].jsstring,
                                  source \o ":")
                        /\ Entry(FeatureLabelOf(source), "1")
                              \in {LabelsOf(composition.services[i].value)[k] :
                                    k \in 1..Len(LabelsOf(composition.services[i].value))}

----------------------------------------------------------------------------
(* C18 *)

\* the fields each rule of normalizeService looks at, in the order of the
\* rules: deny-list, build, labels, network_mode, pid, security_opt,
\* volumes_from, ipc, networks (link_local_ips), pids_limit, ports,
\* depends_on, devices, volumes
RuleFields ==
    << {SERVICE_CONFIG_DENY_LIST[i] : i \in 1..Len(SERVICE_CONFIG_DENY_LIST)},
       {"build"}, {"labels"}, {"network_mode"}, {"pid"}, {"security_opt"},
       {"volumes_from"}, {"ipc"}, {"networks"}, {"pids_limit"}, {"ports"},
       {"depends_on"}, {"devices"}, {"volumes"} >>

\* the service entity with only the fields rule k looks at
OnlyRule(e, k) ==
    [kind |-> e.kind, name |-> e.name,
     value |-> [f \in DOMAIN e.value \cap RuleFields[k] |-> e.value[f]]]

\* the rules the service breaks
ViolatedRules(e) == {k \in 1..Len(RuleFields) : ~Result(OnlyRule(e, k)).ok}

\* C18. A service that breaks several rules is rejected with the rejection
\* of the earliest rule it breaks, in the order deny-listed field, build
\* config, labels, network_mode, pid, security_opt, volumes_from, ipc,
\* link_local_ips, pids_limit, ports, depends_on, devices, volumes: the
\* error is the one that rule raises for the service, normalize ends with
\* it, and a service that breaks none of the rules is not rejected.
C18_ServiceRuleOrder ==
    pass = 1 =>
        \A i \in 1..Len(calls) :
            Visited[i].kind = "service" =>
                IF ViolatedRules(Visited[i]) # {}
                THEN /\ i = Len(calls)
                     /\ pc = "rejected"
                     /\ thrown = Result(OnlyRule(Visited[i],
                                     Min(ViolatedRules(Visited[i])))).error
                ELSE i = Len(calls) => pc # "rejected"

\* a service with a container pid and a CDI device has been rejected for
\* the pid
C18_Witness ==
    /\ pc = "rejected"
    /\ pass = 1
    /\ Len(calls) = 1
    /\ Visited[1].kind = "service"
    /\ ViolatedRules(Visited[1]) = {5, 13}
    /\ thrown = ServiceError("service.pid container:${containerId} is not allowed",
                             "app")

----------------------------------------------------------------------------
(* C17 *)

\* the line is a diagnostic of the external parser: a JSON object with a
\* message
IsDiagnostic(line) ==
    /\ JSONParse(line).ok
    /\ JSONParse(line).value # JSNull
    /\ StringOf(JSONParse(line).value, "message") # ""

\* the severity of a diagnostic; one that states none is an error
SeverityOf(line) ==
    IF Has(JSONParse(line).value, "level") THEN JSONParse(line).value.level
    ELSE "error"

\* the positions in stderr of the diagnostics that are escalated
EscalatedLines(stderr) ==
    {i \in 1..Len(stderr) :
        IsDiagnostic(stderr[i]) /\ SeverityOf(stderr[i]) \in {"error", "fatal", "panic"}}

\* the lines that are not blank and not valid JSON
UnparsableLines(stderr) ==
    {i \in 1..Len(stderr) :
        stderr[i] \notin {"", "  "} /\ ~JSONParse(stderr[i]).ok}

\* C17. parse called with no path throws an ArgumentError and does not run
\* the external parser. Given the stderr of the external parser as a
\* sequence of lines: every line that is not valid JSON is warned about
\* locally and raises nothing; diagnostics of severity warn, info or debug
\* are discarded; if some diagnostic has severity error, fatal or panic,
\* parse throws the first of them in stderr order as a ComposeError, with
\* stdout not parsed and normalize not run; if none has, parse calls
\* normalize with the document of stdout and the first path as the primary
\* path.
C17_ParseDiagnostics ==
    /\ filePaths = << >> /\ pc # "parse" =>
          /\ pc = "thrown"
          /\ thrown.name = "ArgumentError"
          /\ result = JSUndefined
    /\ result # JSUndefined /\ Has(result, "stderr") /\ pc # "output" =>
          /\ warnings >= Cardinality(UnparsableLines(result.stderr))
          /\ IF EscalatedLines(result.stderr) # {}
             THEN /\ pc = "thrown"
                  /\ thrown.message
                       = JSONParse(result.stderr[Min(EscalatedLines(result.stderr))])
                             .value.message
                  /\ thrown.level
                       = SeverityOf(result.stderr[Min(EscalatedLines(result.stderr))])
                  /\ original = JSUndefined
                  /\ composeFilePath = ""
                  /\ calls = << >>
             ELSE JSONParse(result.stdout).ok =>
                  /\ pc # "thrown"
                  /\ composeFilePath = filePaths[1]
                  /\ pass = 1 => original = JSONParse(result.stdout).value

\* a line that is not JSON was warned about and the error response that
\* follows it, which states no level, was thrown
C17_Witness ==
    /\ pc = "thrown"
    /\ result # JSUndefined
    /\ Has(result, "stderr")
    /\ Len(result.stderr) = 2
    /\ UnparsableLines(result.stderr) = {1}
    /\ EscalatedLines(result.stderr) = {2}
    /\ warnings = 1
    /\ thrown = ComposeError("yaml: line 3", "error", "ParseError")

----------------------------------------------------------------------------
(* C21, C22 *)

\* the source of the entry is one of the allow-listed bind mounts
AllowListed(v) == FeatureLabelOf(StringOf(v, "source")) # ""

NonEmptySub(v, f) == Has(v, f) /\ DOMAIN v[f] # {}

\* the message of the rejection the entry calls for, or "" when it calls
\* for none; a volume entry that lacks a source or a target is rejected with
\* a message that quotes the entry
VolumeFault(v) ==
    CASE AllowListed(v) -> ""
      [] StringOf(v, "type") \in {"bind", "image", "npipe", "cluster"} ->
            "service.volumes cannot be of type \"" \o v.type \o "\""
      [] StringOf(v, "type") = "tmpfs" /\ NonEmptySub(v, "tmpfs") ->
            "long syntax service.volumes are not supported"
      [] StringOf(v, "type") = "volume" /\ NonEmptySub(v, "volume") ->
            "long syntax service.volumes are not supported"
      [] StringOf(v, "type") = "volume"
           /\ (StringOf(v, "source") = "" \/ StringOf(v, "target") = "") ->
            "must specify source and target"
      [] OTHER -> ""

OffendingEntries(volumes) ==
    {j \in 1..Len(volumes) : VolumeFault(volumes[j]) # ""}

\* C21. A service volume entry whose source is not allow-listed is rejected
\* with a ServiceError that carries the service name when its type is bind,
\* image, npipe or cluster, when it is a tmpfs entry with a non-empty tmpfs
\* sub-object, or a volume entry with a non-empty volume sub-object; the
\* entries are examined in list order and the rejection is that of the
\* first offending entry, for a service that breaks no earlier rule.
C21_VolumeRejection ==
    pass = 1 =>
        \A i \in 1..Len(calls) :
            /\ Visited[i].kind = "service"
            /\ OffendingEntries(VolumesOf(Visited[i].value)) # {}
            /\ ViolatedRules(Visited[i]) \subseteq {14}
            => /\ i = Len(calls)
               /\ pc = "rejected"
               /\ thrown.name = "ServiceError"
               /\ thrown.serviceName = Visited[i].name
               /\ LET fault == VolumeFault(VolumesOf(Visited[i].value)[
                                   Min(OffendingEntries(VolumesOf(Visited[i].value)))])
                  IN  IF fault = "must specify source and target"
                      THEN EndsWith(thrown.message, fault)
                      ELSE thrown.message = fault

\* an image volume followed by a tmpfs entry with options has been rejected
\* for the image volume
C21_Witness ==
    /\ pc = "rejected"
    /\ pass = 1
    /\ Len(calls) = 1
    /\ Len(VolumesOf(Visited[1].value)) = 2
    /\ OffendingEntries(VolumesOf(Visited[1].value)) = {1, 2}
    /\ VolumesOf(Visited[1].value)[2].type = "tmpfs"
    /\ thrown = ServiceError("service.volumes cannot be of type \"image\"", "app")

\* the volume-typed and the tmpfs-typed entries that are emitted
EmittedVolumes(volumes) ==
    SelectSeq(volumes, LAMBDA v : ~AllowListed(v) /\ StringOf(v, "type") = "volume")
EmittedTmpfs(volumes) ==
    SelectSeq(volumes, LAMBDA v : /\ ~AllowListed(v)
                                  /\ StringOf(v, "type") = "tmpfs"
                                  /\ StringOf(v, "target") # "")

VolumeStringOf(v) ==
    JSString(v.source \o ":" \o v.target
             \o (IF Has(v, "read_only") /\ v.read_only THEN ":ro" ELSE ""))

TmpfsOf(service) == IF Has(service, "tmpfs") THEN service.tmpfs ELSE << >>

\* C22. A volume-typed entry that does not have both a source and a target
\* is rejected.
\* In a normalized service the volumes are the strings source:target of the
\* volume-typed entries, in input order, with :ro appended exactly when
\* read_only is set, each with a non-empty source and target, and the
\* volumes field is absent, never an empty list, when there is no such
\* string; the tmpfs list is the tmpfs the service declared followed by
\* the targets of the tmpfs-typed entries, in input order.
C22_VolumeEmission ==
    pass = 1 =>
        /\ \A i \in 1..Len(calls) :
              /\ Visited[i].kind = "service"
              /\ \E j \in 1..Len(VolumesOf(Visited[i].value)) :
                    /\ VolumesOf(Visited[i].value)[j].type = "volume"
                    /\ ~AllowListed(VolumesOf(Visited[i].value)[j])
                    /\ \/ StringOf(VolumesOf(Visited[i].value)[j], "source") = ""
                       \/ StringOf(VolumesOf(Visited[i].value)[j], "target") = ""
              => i = Len(calls) /\ pc = "rejected"
        /\ pc = "returned" =>
              \A i \in 1..Len(composition.services) :
                  LET given == VolumesOf(original.services[i].value)
                      service == composition.services[i].value
                  IN  Has(original.services[i].value, "volumes") =>
                        /\ VolumesOf(service)
                             = [k \in 1..Len(EmittedVolumes(given)) |->
                                   VolumeStringOf(EmittedVolumes(given)[k])]
                        /\ \A k \in 1..Len(EmittedVolumes(given)) :
                              /\ StringOf(EmittedVolumes(given)[k], "source") # ""
                              /\ StringOf(EmittedVolumes(given)[k], "target") # ""
                        /\ Has(service, "volumes") => service.volumes # << >>
                        /\ TmpfsOf(service)
                             = TmpfsOf(original.services[i].value)
                               \o [k \in 1..Len(EmittedTmpfs(given)) |->
                                      EmittedTmpfs(given)[k].target]
                        /\ Has(service, "tmpfs") => service.tmpfs # << >>

\* a read-only volume and a tmpfs entry have been emitted, the tmpfs target
\* after the tmpfs the service declared
C22_Witness ==
    /\ pc = "returned"
    /\ pass = 1
    /\ Len(composition.services) = 1
    /\ VolumesOf(composition.services[1].value) = <<JSString("data:/data:ro")>>
    /\ TmpfsOf(composition.services[1].value) = <<"/var/tmp", "/run">>

----------------------------------------------------------------------------
(* C23 *)

\* the entry is the no-new-privileges option, bare or with a value
IsNoNewPrivileges(opt) ==
    \/ opt = "no-new-privileges"
    \/ StartsWith(opt, "no-new-privileges:")
    \/ StartsWith(opt, "no-new-privileges=")

SecurityOptOf(service) ==
    IF Has(service, "security_opt") THEN service.security_opt ELSE << >>

\* C23. A service whose security_opt list holds an entry other than the
\* no-new-privileges option is rejected with a ServiceError that carries
\* the service name, an entry that only contains that text inside another
\* option included.
C23_SecurityOptPolicy ==
    pass = 1 =>
        \A i \in 1..Len(calls) :
            /\ Visited[i].kind = "service"
            /\ \E j \in 1..Len(SecurityOptOf(Visited[i].value)) :
                  ~IsNoNewPrivileges(SecurityOptOf(Visited[i].value)[j])
            => /\ i = Len(calls)
               /\ pc = "rejected"
               /\ ViolatedRules(Visited[i]) \cap 1..5 = {} =>
                     thrown = ServiceError(
                         "Only no-new-privileges is allowed for service.security_opt",
                         Visited[i].name)

----------------------------------------------------------------------------
(* C24 *)

DevicesOf(service) == IF Has(service, "devices") THEN service.devices ELSE << >>

\* the source or the target of the device entry does not begin with "/"
NotAPath(device) ==
    \/ ~StartsWith(StringOf(device, "source"), "/")
    \/ ~StartsWith(StringOf(device, "target"), "/")

----------------------------------------------------------------------------
(* C25 *)

\* C25. No network and no volume of the composition that normalize returns
\* has a name field, whatever name the raw document gave it.
C25_ProjectNameStripped ==
    pass = 1 /\ pc = "returned" =>
        \A kind \in {"network", "volume"} :
            \A i \in 1..Len(EntitiesOf(composition, kind)) :
                ~Has(EntitiesOf(composition, kind)[i].value, "name")

----------------------------------------------------------------------------
(* C26 *)

WarnOnlyFields ==
    {"expose", "container_name", "oom_score_adj", "env_file", "label_file",
     "entrypoint"}

\* the ports with the fields name, app_protocol and mode taken off
PlainPorts(ports) ==
    [j \in 1..Len(ports) |->
        IF IsJSString(ports[j]) THEN ports[j]
        ELSE Delete(ports[j], {"name", "app_protocol", "mode"})]

\* the entity without the fields that only warn
WithoutWarnOnly(e) ==
    [kind |-> e.kind, name |-> e.name,
     value |-> IF e.kind = "service"
               THEN LET plain == Delete(e.value, WarnOnlyFields)
                    IN  IF Has(plain, "ports")
                        THEN Assign(plain, "ports", PlainPorts(plain.ports))
                        ELSE plain
               ELSE Delete(e.value, {"driver_opts"})]

\* C26. The conditions that only warn never raise: a service or a network
\* that is accepted without its expose, container_name, oom_score_adj,
\* env_file, label_file, entrypoint, ignorable port fields and driver
\* options is accepted with them.  In the composition that normalize
\* returns, expose, container_name, env_file and label_file are absent, a
\* null entrypoint is absent and any other entrypoint unchanged,
\* oom_score_adj and the driver options of a network are unchanged, and
\* the ports are those of the service without the ignorable port fields.
C26_WarnOnly ==
    pass = 1 =>
        /\ \A i \in 1..Len(calls) :
              Result(WithoutWarnOnly(Visited[i])).ok
                  => ~(i = Len(calls) /\ pc = "rejected")
        /\ pc = "returned" =>
              /\ \A i \in 1..Len(composition.services) :
                    LET given == original.services[i].value
                        service == composition.services[i].value
                    IN  /\ ~Has(service, "expose")
                        /\ ~Has(service, "env_file")
                        /\ ~Has(service, "label_file")
                        /\ StringOf(given, "container_name") # ""
                              => ~Has(service, "container_name")
                        /\ Has(given, "oom_score_adj") =>
                              /\ Has(service, "oom_score_adj")
                              /\ service.oom_score_adj = given.oom_score_adj
                        /\ Has(given, "entrypoint") =>
                              IF given.entrypoint = JSNull
                              THEN ~Has(service, "entrypoint")
                              ELSE /\ Has(service, "entrypoint")
                                   /\ service.entrypoint = given.entrypoint
                        /\ Has(given, "ports") =>
                              service.ports
                                  = longToShortSyntaxPorts(PlainPorts(given.ports))
              /\ \A i \in 1..Len(EntitiesOf(composition, "network")) :
                    LET given == EntitiesOf(original, "network")[i].value
                        network == EntitiesOf(composition, "network")[i].value
                    IN  Has(given, "driver_opts") =>
                          /\ Has(network, "driver_opts")
                          /\ network.driver_opts = given.driver_opts

\* a service with every field that only warns, beside a network with the
\* bridge name option, has been normalized
C26_Witness ==
    /\ pc = "returned"
    /\ pass = 1
    /\ Len(original.services) = 1
    /\ WarnOnlyFields \cup {"ports"} \subseteq DOMAIN original.services[1].value
    /\ original.services[1].value.entrypoint = JSNull
    /\ original.services[1].value.oom_score_adj = -1000
    /\ composition.services[1].value
          = [image |-> "myapp:latest", oom_score_adj |-> -1000,
             ports |-> <<JSString("8080:80")>>]
    /\ Len(EntitiesOf(composition, "network")) = 1
    /\ EntitiesOf(composition, "network")[1].value.driver_opts
          = <<Entry("com.docker.network.bridge.name", "br0")>>

====
